---- MODULE Spec2Model ----
(***************************************************************************)
(* Model of the structural analyzer, the login/OTP controller and the      *)
(* test-case synthesis engine of src/smart_test_engine.py.                 *)
(*                                                                         *)
(* Each component is a state machine of its own with its own               *)
(* specification; the variables of the other components stay idle:         *)
(*   SpecSanitize  _sanitize_identifier                                    *)
(*   SpecLogin     perform_login (with the OTP sub-protocol)               *)
(*   SpecLevels    _detect_form_levels                                     *)
(*   SpecModules   detect_erp_modules                                      *)
(*   SpecSynth     generate_all_tests and the generate_* operations        *)
(*   SpecAnalyze   analyze_website                                         *)
(*   SpecClassify  _classify_erp_table                                     *)
(*   SpecHistory   add_entry / get_history of src/report_history.py        *)
(*   SpecManager   RecordingManager of src/recording_manager.py            *)
(*   SpecRecorder  RecordingSession._process_events                        *)
(*   SpecExecutor  TestExecutor.execute_all_tests of src/test_executor.py  *)
(* Text is modelled by TLA+ strings: Len, \o and SubSeq act on them as on  *)
(* sequences of characters.                                                *)
(***************************************************************************)
EXTENDS Integers, Sequences, FiniteSets, TLC

VARIABLES
    \* _sanitize_identifier, applied once and then to its own output
    sanPc, sanIn, sanOut, sanTwice,
    \* the engine: constructor arguments and attributes
    website_url, login_id, password, otp_value, has_page,
    detected_elements, test_cases,
    \* the page collaborator: its current URL and the actions issued to it
    page_url, page_actions,
    \* perform_login: position, arguments, locals, return value
    lpc, arg_otp_value, wait_for_otp, otp_field, waited, otp_reads,
    seen_filled, timed_out, login_result,
    \* the page's URL when perform_login is entered, the body read at line 974
    submit_url, page_source,
    \* whether the last otp_locator.input_value() of the manual wait raised
    last_read_raised,
    \* _detect_form_levels: position, the page's <a> elements, locals, return value
    dpc, page_links, level_links, level_idx, original_url, form_levels, back_result,
    \* the values of idx whose page.goto raised (line 563)
    failed_levels,
    \* detect_erp_modules: position, the navigation <a> elements, locals, return value
    mpc, nav_links, all_links, link_idx, detected_modules, modules,
    \* generate_all_tests: position, what analyze_website finds on the page,
    \* the number of calls, the suite each call returned
    gpc, page_snapshot, calls, returned,
    \* analyze_website: position, the page's <a> elements, the snapshot being
    \* built, the exception it raised
    apc, anchors, snapshot, analyze_error,
    \* _classify_erp_table: position, argument, return value
    cpc, headers_arg, returned_type,
    \* report_history: the lock's holder, the file, per writer thread its
    \* position, entry and the list it read, the clock, the entries in the
    \* order they were written, the adds finished, what get_history returned
    h_lock, history_file, h_pc, h_entry, h_history, clock, added, adds, h_view,
    \* RecordingManager: the lock's holder, self._session, the sessions created,
    \* the sessions whose browser is open, whose poll thread runs, whose stop
    \* event is set, per caller thread its position, what get_status returned
    m_lock, _session, sessions_made, browsers, pollers, stop_events, m_pc, m_status,
    \* RecordingSession: self.steps, self._step_counter, the events handled
    rec_steps, _step_counter, processed,
    \* TestExecutor: position, the test_cases argument, self.results,
    \* self.summary, the calls returned
    e_pc, supplied, results, summary, e_calls

sanVars == <<sanPc, sanIn, sanOut, sanTwice>>
engineVars == <<website_url, login_id, password, otp_value, has_page, detected_elements, test_cases>>
pageVars == <<page_url, page_actions>>
loginVars == <<lpc, arg_otp_value, wait_for_otp, otp_field, waited, otp_reads, seen_filled, timed_out, login_result,
              submit_url, page_source, last_read_raised>>
levelVars == <<dpc, page_links, level_links, level_idx, original_url, form_levels, back_result, failed_levels>>
moduleVars == <<mpc, nav_links, all_links, link_idx, detected_modules, modules>>
synthVars == <<gpc, page_snapshot, calls, returned>>
analyzeVars == <<apc, anchors, snapshot, analyze_error>>
classifyVars == <<cpc, headers_arg, returned_type>>
historyVars == <<h_lock, history_file, h_pc, h_entry, h_history, clock, added, adds, h_view>>
managerVars == <<m_lock, _session, sessions_made, browsers, pollers, stop_events, m_pc, m_status>>
recorderVars == <<rec_steps, _step_counter, processed>>
executorVars == <<e_pc, supplied, results, summary, e_calls>>
earlyVars == <<sanVars, engineVars, pageVars, loginVars, levelVars, moduleVars, synthVars, analyzeVars, classifyVars>>
lateVars == <<historyVars, managerVars, recorderVars, executorVars>>
vars == <<earlyVars, lateVars>>

notSan == <<lateVars, classifyVars, analyzeVars, engineVars, pageVars, loginVars, levelVars, moduleVars, synthVars>>
notSynth == <<lateVars, classifyVars, analyzeVars, sanVars, loginVars, levelVars, moduleVars>>
notLogin == <<lateVars, classifyVars, analyzeVars, sanVars, levelVars, moduleVars, synthVars, website_url, login_id, password, otp_value, has_page, detected_elements, test_cases>>
notLevels == <<lateVars, classifyVars, analyzeVars, sanVars, loginVars, engineVars, moduleVars, synthVars>>
notModules == <<lateVars, classifyVars, analyzeVars, sanVars, loginVars, engineVars, levelVars, pageVars, synthVars>>

(***************************************************************************)
(* Text helpers (Python str methods and the re patterns the code uses)     *)
(***************************************************************************)
LowerLetters == "abcdefghijklmnopqrstuvwxyz"
UpperLetters == "ABCDEFGHIJKLMNOPQRSTUVWXYZ"
Digits == "0123456789"

CharAt(s, i) == SubSeq(s, i, i)

CharIn(c, alphabet) == \E i \in 1..Len(alphabet) : CharAt(alphabet, i) = c

\* [a-zA-Z0-9]
IsAlnum(c) == CharIn(c, LowerLetters) \/ CharIn(c, UpperLetters) \/ CharIn(c, Digits)

\* the whitespace str.strip() removes; the model's texts use the blank only
IsSpace(c) == c = " "

IndexIn(c, alphabet) == CHOOSE i \in 1..Len(alphabet) : CharAt(alphabet, i) = c

UpperChar(c) == IF CharIn(c, LowerLetters) THEN CharAt(UpperLetters, IndexIn(c, LowerLetters)) ELSE c

LowerChar(c) == IF CharIn(c, UpperLetters) THEN CharAt(LowerLetters, IndexIn(c, UpperLetters)) ELSE c

RECURSIVE MapChars(_, _)
\* which: "upper" | "lower" | "alnum_or_underscore"
MapChars(s, which) ==
    IF Len(s) = 0 THEN ""
    ELSE LET c == CharAt(s, 1)
             d == CASE which = "upper" -> UpperChar(c)
                    [] which = "lower" -> LowerChar(c)
                    [] OTHER -> IF IsAlnum(c) THEN c ELSE "_"
         IN d \o MapChars(SubSeq(s, 2, Len(s)), which)

\* str.upper() / str.lower()
upper(s) == MapChars(s, "upper")
lower(s) == MapChars(s, "lower")

RECURSIVE LStrip(_, _)
LStrip(s, c) == IF Len(s) > 0 /\ CharAt(s, 1) = c THEN LStrip(SubSeq(s, 2, Len(s)), c) ELSE s

RECURSIVE RStrip(_, _)
RStrip(s, c) == IF Len(s) > 0 /\ CharAt(s, Len(s)) = c THEN RStrip(SubSeq(s, 1, Len(s) - 1), c) ELSE s

\* str.strip(c); str.strip() is strip(s, " ")
strip(s, c) == RStrip(LStrip(s, c), c)

RECURSIVE CollapseUnderscores(_)
\* re.sub(r'_+', '_', s)
CollapseUnderscores(s) ==
    IF Len(s) <= 1 THEN s
    ELSE IF CharAt(s, 1) = "_" /\ CharAt(s, 2) = "_"
         THEN CollapseUnderscores(SubSeq(s, 2, Len(s)))
         ELSE CharAt(s, 1) \o CollapseUnderscores(SubSeq(s, 2, Len(s)))

\* s[:n]
Prefix(s, n) == IF Len(s) <= n THEN s ELSE SubSeq(s, 1, n)

\* kw in text
Contains(text, kw) ==
    \E i \in 1..(Len(text) - Len(kw) + 1) : SubSeq(text, i, i + Len(kw) - 1) = kw

(***************************************************************************)
(* Sanitizer: the class defines _sanitize_identifier twice; the later      *)
(* definition replaces the earlier one, so every call site runs this one.  *)
(***************************************************************************)
MaxIdLen == 30

\* the cut of the last line of _sanitize_identifier
SanitizeCut(s) == Prefix(s, MaxIdLen)

_sanitize_identifier(text) ==
    IF text = "" THEN "UNKNOWN"
    ELSE LET replaced == MapChars(strip(text, " "), "alnum_or_underscore")
             collapsed == CollapseUnderscores(replaced)
             sanitized == strip(collapsed, "_")
         IN IF sanitized = "" THEN "UNKNOWN" ELSE SanitizeCut(upper(sanitized))

(***************************************************************************)
(* The snapshot (detected_elements) and its element records.  An absent    *)
(* attribute (None) is the empty string: the code only tests such values   *)
(* for truth.                                                              *)
(***************************************************************************)
Field(type, name, id, placeholder, required) ==
    [type |-> type, name |-> name, id |-> id, placeholder |-> placeholder, required |-> required]

Button(text, id) == [text |-> text, id |-> id]

EmptySnapshot ==
    [input_fields |-> <<>>, buttons |-> <<>>, links |-> <<>>, forms |-> <<>>,
     dropdowns |-> <<>>, checkboxes |-> <<>>, radio_buttons |-> <<>>, iframes |-> <<>>,
     tables |-> <<>>, modules |-> <<>>, table_details |-> <<>>, form_levels |-> <<>>,
     page_title |-> ""]

\* self.test_cases of __init__; the key multi_level, added by generate_all_tests
\* when form levels exist, is the empty list until then
EmptyTestCases ==
    [positive |-> <<>>, negative |-> <<>>, ui |-> <<>>, functional |-> <<>>,
     workflow |-> <<>>, edge_case |-> <<>>, multi_level |-> <<>>]

\* index of the first element of seq that satisfies P, 0 when there is none
FirstIndex(seq, P(_)) ==
    IF \E i \in 1..Len(seq) : P(seq[i])
    THEN CHOOSE i \in 1..Len(seq) : P(seq[i]) /\ \A j \in 1..(i - 1) : ~P(seq[j])
    ELSE 0

EngineIdle ==
    /\ website_url = "" /\ login_id = "" /\ password = "" /\ otp_value = ""
    /\ has_page = FALSE
    /\ detected_elements = EmptySnapshot
    /\ test_cases = EmptyTestCases

PageIdle == page_url = "" /\ page_actions = <<>>

(***************************************************************************)
(* Login & OTP controller                                                  *)
(***************************************************************************)
login_keywords == <<"username", "user", "email", "login", "userid", "user_id", "usr", "emailid">>
login_btn_keywords == <<"login", "sign in", "submit", "log in", "signin">>

AnyKeyword(keywords, text) == \E k \in 1..Len(keywords) : Contains(text, keywords[k])

IsUsernameField(inp) ==
    /\ inp.type \in {"text", "email"}
    /\ \/ AnyKeyword(login_keywords, lower(inp.name))
       \/ AnyKeyword(login_keywords, lower(inp.id))
       \/ AnyKeyword(login_keywords, lower(inp.placeholder))

\* (a changed IsPasswordField: any input taken for the password field)
IsPasswordFieldAny(inp) == inp.type # "hidden"

IsPasswordField(inp) == inp.type = "password"

IsLoginButton(btn) == AnyKeyword(login_btn_keywords, lower(btn.text))

\* indexes into input_fields / buttons, 0 for None
find_login_fields(detected) ==
    [username_field |-> FirstIndex(detected.input_fields, IsUsernameField),
     password_field |-> FirstIndex(detected.input_fields, IsPasswordField),
     login_button |-> FirstIndex(detected.buttons, IsLoginButton)]

\* None, as an argument or a return value
NoneValue == "<None>"

NoOtpField == [found |-> FALSE, id |-> "", name |-> "", placeholder |-> ""]

\* what detect_otp_field can return: None, or the attributes of the matched input
OtpFields ==
    {NoOtpField,
     [found |-> TRUE, id |-> "otp", name |-> "otp_code", placeholder |-> ""],
     [found |-> TRUE, id |-> "", name |-> "", placeholder |-> "Enter OTP"],
     [found |-> TRUE, id |-> "", name |-> "", placeholder |-> ""]}

\* Python truth of an optional string
Truthy(v) == v # NoneValue /\ v # ""

\* the manual branch builds a locator from id, name or placeholder, else keeps None
ManualLocatorExists(f) == Truthy(f.id) \/ Truthy(f.name) \/ Truthy(f.placeholder)

max_wait == 60
MinOtpLen == 4

\* (a changed OtpEntered: the threshold read as 6 characters)
OtpEnteredSix(value) == value # "" /\ Len(strip(value, " ")) >= 6

\* "value and len(value.strip()) >= 4"
OtpEntered(value) == value # "" /\ Len(strip(value, " ")) >= MinOtpLen

\* otp_locator.input_value() raised
ReadRaises == "<raises>"

\* (a changed ReadBreaks: a read that raises ends the loop)
ReadBreaksOnRaise(value) == value = ReadRaises \/ OtpEntered(value)

\* lines 921-928: the read breaks the loop when it returns a filled value;
\* a read that raises is passed over by the bare except
ReadBreaks(value) == value # ReadRaises /\ OtpEntered(value)

RECURSIVE NonSpaceCount(_)
NonSpaceCount(s) ==
    IF Len(s) = 0 THEN 0
    ELSE (IF IsSpace(CharAt(s, 1)) THEN 0 ELSE 1) + NonSpaceCount(SubSeq(s, 2, Len(s)))

\* what one read of the OTP field can give: a value, or an exception
OtpReadings == {"", "48", " 48 ", "482", "4  8", " 4821", "4821 ", "482193", ReadRaises}

PageBodies == {"Welcome to the Dashboard", "please wait", "error: home page unavailable", "Login failed"}

success_indicators == <<"dashboard", "welcome", "home">>
error_indicators == <<"error", "invalid", "incorrect", "failed">>

\* the outcome heuristic at the end of perform_login
LoginOutcome(current_url, source) ==
    IF current_url # website_url \/ AnyKeyword(success_indicators, source)
    THEN "True"
    ELSE IF AnyKeyword(error_indicators, source) THEN "False" ELSE "True"

\* self.page.content() not called
NotRead == "<not read>"

LoginIdle ==
    /\ lpc = "idle" /\ arg_otp_value = NoneValue /\ wait_for_otp = FALSE
    /\ otp_field = NoOtpField /\ waited = 0 /\ otp_reads = 0
    /\ seen_filled = FALSE /\ timed_out = FALSE /\ login_result = "none"
    /\ submit_url = "" /\ page_source = NotRead /\ last_read_raised = FALSE

LoginSnapshot(fields, btns) == [EmptySnapshot EXCEPT !.input_fields = fields, !.buttons = btns]

\* pages with and without a username field, a password field and a login button
LoginSnapshots ==
    {LoginSnapshot(<<Field("email", "email", "", "", TRUE), Field("password", "pwd", "pwd", "", FALSE)>>,
                   <<Button("Cancel", ""), Button("Sign In", "btnLogin")>>),
     LoginSnapshot(<<Field("text", "q", "", "Search", FALSE), Field("text", "unnamed", "", "User ID", FALSE),
                     Field("password", "unnamed", "", "", TRUE)>>,
                   <<>>),
     LoginSnapshot(<<Field("text", "q", "", "Search", FALSE), Field("password", "pwd", "", "", FALSE)>>,
                   <<Button("Login", "btnLogin")>>),
     LoginSnapshot(<<Field("email", "email", "email", "", TRUE)>>, <<>>)}

Return(value) == lpc' = "done" /\ login_result' = value

Issue(action) == page_actions' = Append(page_actions, action)

\* perform_login entered; find_login_fields; the two early returns
FindLoginFields ==
    /\ lpc = "start"
    /\ LET found == find_login_fields(detected_elements)
       IN IF found.username_field = 0 \/ found.password_field = 0
          THEN Return("False")
          ELSE lpc' = "fill_username" /\ UNCHANGED login_result
    /\ UNCHANGED <<last_read_raised, submit_url, page_source, arg_otp_value, wait_for_otp, otp_field, waited, otp_reads, seen_filled, timed_out>>
    /\ UNCHANGED <<pageVars, notLogin>>

\* one page call of the outer try block: it returns, or it raises and the
\* handler of line 989 returns False
PageCall(at, action, next) ==
    /\ lpc = at
    /\ Issue(action)
    /\ \E raises \in BOOLEAN :
          IF raises THEN Return("False") ELSE lpc' = next /\ UNCHANGED login_result
    /\ UNCHANGED <<last_read_raised, submit_url, page_source, arg_otp_value, wait_for_otp, otp_field, waited, otp_reads, seen_filled, timed_out>>
    /\ UNCHANGED <<page_url, notLogin>>

FillUsername == PageCall("fill_username", "fill_username", "fill_password")
FillPassword == PageCall("fill_password", "fill_password", "click_login")
\* (a changed ClickLogin: the click left out, the wait issued in its place)
ClickLoginLeftOut == PageCall("click_login", "wait_networkidle", "wait_networkidle")

ClickLogin == PageCall("click_login", "click_login", "wait_networkidle")
WaitNetworkIdle == PageCall("wait_networkidle", "wait_networkidle", "detect_otp")

\* otp_field = self.detect_otp_field() and the choice of the OTP branch
DetectOtp ==
    /\ lpc = "detect_otp"
    /\ \E f \in OtpFields :
          /\ otp_field' = f
          /\ lpc' = IF ~f.found THEN "outcome"
                    ELSE IF wait_for_otp
                         THEN (IF ManualLocatorExists(f) THEN "manual_wait" ELSE "outcome")
                         ELSE IF Truthy(arg_otp_value) THEN "auto_fill" ELSE "outcome"
    /\ UNCHANGED <<last_read_raised, submit_url, page_source, arg_otp_value, wait_for_otp, waited, otp_reads, seen_filled, timed_out, login_result>>
    /\ UNCHANGED <<pageVars, notLogin>>

\* self.page.wait_for_timeout(1000); max_wait = 60; waited = 0
\* (an exception here is caught by the handler of line 942)
ManualWaitStart ==
    /\ lpc = "manual_wait"
    /\ \E raises \in BOOLEAN : lpc' = IF raises THEN "outcome" ELSE "poll"
    /\ waited' = 0
    /\ UNCHANGED <<last_read_raised, submit_url, page_source, arg_otp_value, wait_for_otp, otp_field, otp_reads, seen_filled, timed_out, login_result>>
    /\ UNCHANGED <<pageVars, notLogin>>

\* one iteration of "while waited < max_wait"
PollOtp ==
    /\ lpc = "poll"
    /\ waited < max_wait
    /\ \E value \in OtpReadings :
          /\ otp_reads' = otp_reads + 1
          /\ seen_filled' = (seen_filled \/ (value # ReadRaises /\ NonSpaceCount(value) >= 4))
          /\ last_read_raised' = (value = ReadRaises)
          /\ IF ReadBreaks(value)
             THEN lpc' = "verify" /\ UNCHANGED waited
             ELSE lpc' = "poll" /\ waited' = waited + 1
    /\ UNCHANGED <<submit_url, page_source, arg_otp_value, wait_for_otp, otp_field, timed_out, login_result>>
    /\ UNCHANGED <<pageVars, notLogin>>

\* the loop condition fails: the loop ends without a break
PollTimeout ==
    /\ lpc = "poll"
    /\ ~(waited < max_wait)
    /\ timed_out' = TRUE
    /\ lpc' = "verify"
    /\ UNCHANGED <<last_read_raised, submit_url, page_source, arg_otp_value, wait_for_otp, otp_field, waited, otp_reads, seen_filled, login_result>>
    /\ UNCHANGED <<pageVars, notLogin>>

\* lines 933-941; an exception is caught by the handler of line 942
ManualSubmit ==
    /\ lpc = "verify"
    /\ \E verify_btn_count \in {0, 1} :
          Issue(IF verify_btn_count > 0 THEN "otp_verify_click" ELSE "otp_press_enter")
    /\ lpc' = "outcome"
    /\ UNCHANGED <<last_read_raised, submit_url, page_source, arg_otp_value, wait_for_otp, otp_field, waited, otp_reads, seen_filled, timed_out, login_result>>
    /\ UNCHANGED <<page_url, notLogin>>

\* the AUTO branch: otp_locator.count(), fill; an exception returns False (line 968)
AutoFill ==
    /\ lpc = "auto_fill"
    /\ \E count \in {0, 1} :
          IF count = 0
          THEN lpc' = "outcome" /\ UNCHANGED <<page_actions, login_result>>
          ELSE /\ Issue("otp_fill")
               /\ \E raises \in BOOLEAN :
                     IF raises THEN Return("False") ELSE lpc' = "auto_verify" /\ UNCHANGED login_result
    /\ UNCHANGED <<last_read_raised, submit_url, page_source, arg_otp_value, wait_for_otp, otp_field, waited, otp_reads, seen_filled, timed_out>>
    /\ UNCHANGED <<page_url, notLogin>>

AutoSubmit ==
    /\ lpc = "auto_verify"
    /\ \E verify_btn_count \in {0, 1} :
          Issue(IF verify_btn_count > 0 THEN "otp_verify_click" ELSE "otp_press_enter")
    /\ \E raises \in BOOLEAN :
          IF raises THEN Return("False") ELSE lpc' = "outcome" /\ UNCHANGED login_result
    /\ UNCHANGED <<last_read_raised, submit_url, page_source, arg_otp_value, wait_for_otp, otp_field, waited, otp_reads, seen_filled, timed_out>>
    /\ UNCHANGED <<page_url, notLogin>>

\* lines 972-991: self.page.url, self.page.content(), and the heuristic
CheckOutcome ==
    /\ lpc = "outcome"
    /\ \E raises \in BOOLEAN, current_url \in {page_url, website_url \o "/home"}, body \in PageBodies :
          /\ page_url' = IF raises THEN page_url ELSE current_url
          /\ page_source' = IF raises THEN page_source ELSE lower(body)
          /\ Return(IF raises THEN "False" ELSE LoginOutcome(current_url, lower(body)))
    /\ UNCHANGED <<last_read_raised, submit_url, arg_otp_value, wait_for_otp, otp_field, waited, otp_reads, seen_filled, timed_out>>
    /\ UNCHANGED <<page_actions, notLogin>>

LoginNext ==
    \/ FindLoginFields \/ FillUsername \/ FillPassword \/ ClickLogin \/ WaitNetworkIdle
    \/ DetectOtp \/ ManualWaitStart \/ PollOtp \/ PollTimeout \/ ManualSubmit
    \/ AutoFill \/ AutoSubmit \/ CheckOutcome

LoginInit ==
    /\ lpc = "start"
    /\ arg_otp_value \in {NoneValue, "", "482193"}
    /\ wait_for_otp \in BOOLEAN
    /\ otp_field = NoOtpField /\ waited = 0 /\ otp_reads = 0
    /\ seen_filled = FALSE /\ timed_out = FALSE /\ login_result = "none"
    /\ website_url = "http://erp.test/login"
    /\ login_id = "admin" /\ password = "secret" /\ otp_value = arg_otp_value
    /\ has_page = TRUE
    /\ detected_elements \in LoginSnapshots
    /\ test_cases = EmptyTestCases
    /\ page_url \in {website_url, website_url \o "/"} /\ page_actions = <<>>
    /\ submit_url = page_url /\ page_source = NotRead /\ last_read_raised = FALSE

(***************************************************************************)
(* Multi-level form discovery                                              *)
(***************************************************************************)
StartsWith(s, prefix) == Len(s) >= Len(prefix) /\ SubSeq(s, 1, Len(prefix)) = prefix

\* position of the first "/" of s after position from, Len(s) + 1 when there is none
RECURSIVE SlashFrom(_, _)
SlashFrom(s, from) ==
    IF from > Len(s) THEN Len(s) + 1
    ELSE IF CharAt(s, from) = "/" THEN from ELSE SlashFrom(s, from + 1)

\* position of the last "/" of s, 0 when there is none
RECURSIVE LastSlash(_, _)
LastSlash(s, upto) ==
    IF upto = 0 THEN 0
    ELSE IF CharAt(s, upto) = "/" THEN upto ELSE LastSlash(s, upto - 1)

\* urljoin(base, href) for the two shapes _resolve_url passes on:
\* a path from the root, or a path relative to the directory of base
urljoin(base, href) ==
    LET schemeEnd == SlashFrom(base, 1) + 1
        originEnd == SlashFrom(base, schemeEnd + 1) - 1
    IN IF href = "" THEN base
       ELSE IF StartsWith(href, "/") THEN SubSeq(base, 1, originEnd) \o href
       ELSE IF LastSlash(base, Len(base)) <= schemeEnd THEN base \o "/" \o href
       ELSE SubSeq(base, 1, LastSlash(base, Len(base))) \o href

_resolve_url(href) ==
    IF StartsWith(href, "http") THEN href
    ELSE IF StartsWith(href, "/") THEN urljoin(website_url, href)
    ELSE urljoin(page_url, href)

\* level_patterns, each searched with re.IGNORECASE
LevelSeparators == {"", " ", "_", "-"}
level_patterns ==
    {"level" \o sep \o d : sep \in LevelSeparators, d \in {"1", "2", "3", "4", "5"}}
    \cup {"form" \o sep \o d : sep \in LevelSeparators, d \in {"1", "2", "3"}}
    \cup {"/level/" \o d : d \in {"1", "2", "3"}}
    \cup {"/form/" \o d : d \in {"1", "2", "3"}}

MatchesLevelPattern(href, link_text) ==
    \E pattern \in level_patterns :
        Contains(lower(href), pattern) \/ Contains(lower(link_text), pattern)

Link(href, text) == [href |-> href, text |-> text]

RECURSIVE CollectLevelLinks(_, _)
\* lines 519-537: the matching links, without a second link to the same full URL
CollectLevelLinks(links, acc) ==
    IF links = <<>> THEN acc
    ELSE LET link == Head(links)
             full_url == _resolve_url(link.href)
             seen == {acc[i].full_url : i \in 1..Len(acc)}
         IN IF MatchesLevelPattern(link.href, lower(strip(link.text, " "))) /\ full_url \notin seen
            THEN CollectLevelLinks(Tail(links),
                     Append(acc, [text |-> strip(link.text, " "), href |-> link.href, full_url |-> full_url]))
            ELSE CollectLevelLinks(Tail(links), acc)

MaxLevels == 5

\* (a changed LevelsToVisit: the slice forgotten)
LevelsToVisitAll(links) == links

\* level_links[:5]
LevelsToVisit(links) == IF Len(links) <= MaxLevels THEN links ELSE SubSeq(links, 1, MaxLevels)

MaxForms == 2

\* (a changed AfterFailedGoto: the failure ends the loop)
AfterFailedGotoBreak(idx, n) == n

\* line 565: "continue" takes the loop to the next level, n levels in all
AfterFailedGoto(idx, n) == idx + 1

FormOfLevel(form_idx) == [form_id |-> "form_" \o CharAt(Digits, form_idx + 1), action |-> "", method |-> "get"]

LevelData(idx, level_link, n_forms) ==
    [level_number |-> idx + 1,
     level_name |-> IF level_link.text # "" THEN level_link.text ELSE "Level " \o CharAt(Digits, idx + 2),
     url |-> level_link.full_url,
     forms |-> [k \in 1..n_forms |-> FormOfLevel(k)]]

LevelsIdle ==
    /\ dpc = "idle" /\ page_links = <<>> /\ level_links = <<>> /\ level_idx = 0
    /\ original_url = "" /\ form_levels = <<>> /\ back_result = "none"
    /\ failed_levels = {}

\* (a changed RestoreTarget: the page's current URL taken for the original one)
RestoreTargetCurrent(saved, current) == current

\* the URL the final goto is given: original_url, saved before the first level
RestoreTarget(saved, current) == saved

\* lines 515-542: collect the level links; without any, return at once.
\* An exception of locator("a").all() is caught by the handler of line 642.
ScanLinks ==
    /\ dpc = "start"
    /\ \E raises \in BOOLEAN :
          LET found == IF raises THEN <<>> ELSE CollectLevelLinks(page_links, <<>>)
          IN /\ level_links' = found
             /\ IF found = <<>>
                THEN dpc' = "done" /\ UNCHANGED original_url
                ELSE dpc' = "levels" /\ original_url' = page_url
    /\ UNCHANGED <<page_links, level_idx, form_levels, back_result, failed_levels, pageVars, notLevels>>

\* one iteration of "for idx, level_link in enumerate(level_links[:5])":
\* goto, then the forms of the level; each failure skips the level
VisitLevel ==
    /\ dpc = "levels"
    /\ level_idx < Len(LevelsToVisit(level_links))
    /\ LET level_link == LevelsToVisit(level_links)[level_idx + 1]
           level_url == level_link.full_url
       IN /\ page_actions' = Append(page_actions, "goto " \o level_url)
          /\ \/ \* page.goto raises: the level is skipped, wherever the page got to
                /\ page_url' \in {page_url, level_url}
                /\ failed_levels' = failed_levels \cup {level_idx}
                /\ level_idx' = AfterFailedGoto(level_idx, Len(LevelsToVisit(level_links)))
                /\ UNCHANGED form_levels
             \/ \* locator("form").all() raises on the level page
                /\ page_url' = level_url
                /\ level_idx' = level_idx + 1
                /\ UNCHANGED <<form_levels, failed_levels>>
             \/ \E n_forms \in 0..MaxForms :
                   /\ page_url' = level_url
                   /\ form_levels' = Append(form_levels, LevelData(level_idx, level_link, n_forms))
                   /\ level_idx' = level_idx + 1
                   /\ UNCHANGED failed_levels
    /\ UNCHANGED <<dpc, page_links, level_links, original_url, back_result, notLevels>>

\* lines 635-640: navigate back to the main page; a failure is passed over
NavigateBack ==
    /\ dpc = "levels"
    /\ level_idx = Len(LevelsToVisit(level_links))
    /\ LET target == RestoreTarget(original_url, page_url)
       IN /\ page_actions' = Append(page_actions, "goto " \o target)
          /\ \/ page_url' = target /\ back_result' = "ok"
             \/ \* page.goto raises, wherever the page got to
                page_url' \in {page_url, target} /\ back_result' = "raised"
    /\ dpc' = "done"
    /\ UNCHANGED <<page_links, level_links, level_idx, original_url, form_levels, failed_levels, notLevels>>

LevelsNext == ScanLinks \/ VisitLevel \/ NavigateBack

\* the <a> elements of the analyzed page, in document order
SiteLinks ==
    <<Link("/about", "About"),
      Link("/level/1", "Level 1"),
      Link("http://erp.test/level/1", "Start here"),
      Link("wizard", " Form 2 "),
      Link("/level/3", ""),
      Link("/Form-3", "Continue"),
      Link("/level/4", "Level 4"),
      Link("/steps/five", "LEVEL_5"),
      Link("/form/1", "Form one"),
      Link("/level/2", "Level 2")>>

MaxPageLinks == 10

PageLinkLists == {Prefix(SiteLinks, n) : n \in 0..MaxPageLinks}

LevelsInit ==
    /\ dpc = "start"
    /\ page_links \in PageLinkLists
    /\ level_links = <<>> /\ level_idx = 0 /\ original_url = "" /\ form_levels = <<>>
    /\ back_result = "none" /\ failed_levels = {}
    /\ website_url = "http://erp.test/app/home"
    /\ login_id = "" /\ password = "" /\ otp_value = ""
    /\ has_page = TRUE
    /\ detected_elements = EmptySnapshot
    /\ test_cases = EmptyTestCases
    /\ page_url = website_url /\ page_actions = <<>>

(***************************************************************************)
(* Module classification                                                   *)
(***************************************************************************)
\* erp_module_keywords, in the order of the dict
erp_module_keywords ==
    <<[type |-> "student", keywords |-> <<"student", "admission", "enrollment", "pupil", "learner">>],
      [type |-> "teacher", keywords |-> <<"teacher", "faculty", "staff", "instructor">>],
      [type |-> "academic", keywords |-> <<"course", "subject", "class", "section", "syllabus", "curriculum">>],
      [type |-> "attendance", keywords |-> <<"attendance", "present", "absent", "leave">>],
      [type |-> "examination", keywords |-> <<"exam", "test", "assessment", "result", "grade", "marks">>],
      [type |-> "finance", keywords |-> <<"fee", "payment", "expense", "financial", "billing", "invoice">>],
      [type |-> "library", keywords |-> <<"library", "book", "issue", "return">>],
      [type |-> "hostel", keywords |-> <<"hostel", "room", "boarding">>],
      [type |-> "transport", keywords |-> <<"transport", "bus", "vehicle", "route">>],
      [type |-> "report", keywords |-> <<"report", "analytics", "dashboard", "statistics">>]>>

\* str.title() of a one-word key
title(word) == IF word = "" THEN "" ELSE UpperChar(CharAt(word, 1)) \o lower(SubSeq(word, 2, Len(word)))

NavLink(text, href, id) == [text |-> text, href |-> href, id |-> id]

RECURSIVE CollectNavLinks(_)
\* lines 320-337: text stripped and lower-cased, kept when longer than one character
CollectNavLinks(links) ==
    IF links = <<>> THEN <<>>
    ELSE LET link == Head(links)
             text == lower(strip(link.text, " "))
         IN IF text # "" /\ Len(text) > 1
            THEN <<NavLink(text, link.href, link.id)>> \o CollectNavLinks(Tail(links))
            ELSE CollectNavLinks(Tail(links))

ModuleIndex(mods, module_type) == FirstIndex(mods, LAMBDA m : m.key = module_type)

\* (a changed AddToModule: a new record for every matching link)
AddToModuleAlwaysNew(mods, module_type, link) ==
    Append(mods, [key |-> module_type, name |-> title(module_type), links |-> <<link>>, count |-> 1])

\* lines 345-356: the link appended to the record of module_type, created on first use
AddToModule(mods, module_type, link) ==
    LET present == IF ModuleIndex(mods, module_type) = 0
                   THEN Append(mods, [key |-> module_type, name |-> title(module_type), links |-> <<>>, count |-> 0])
                   ELSE mods
        at == ModuleIndex(present, module_type)
    IN [present EXCEPT ![at].links = Append(@, link), ![at].count = @ + 1]

RECURSIVE ClassifyFrom(_, _, _)
\* lines 343-356: "for module_type, keywords in erp_module_keywords.items()"
ClassifyFrom(mods, link, k) ==
    IF k > Len(erp_module_keywords) THEN mods
    ELSE LET entry == erp_module_keywords[k]
         IN IF AnyKeyword(entry.keywords, link.text)
            THEN ClassifyFrom(AddToModule(mods, entry.type, link), link, k + 1)
            ELSE ClassifyFrom(mods, link, k + 1)

ModulesIdle ==
    /\ mpc = "idle" /\ nav_links = <<>> /\ all_links = <<>> /\ link_idx = 0
    /\ detected_modules = <<>> /\ modules = <<>>

\* lines 308-337; an exception that escapes is caught by the handler of line 361
CollectLinks ==
    /\ mpc = "start"
    /\ \E raises \in BOOLEAN :
          IF raises
          THEN mpc' = "done" /\ UNCHANGED all_links
          ELSE mpc' = "classify" /\ all_links' = CollectNavLinks(nav_links)
    /\ UNCHANGED <<nav_links, link_idx, detected_modules, modules, notModules>>

\* one iteration of "for link in all_links"
ClassifyLink ==
    /\ mpc = "classify"
    /\ link_idx < Len(all_links)
    /\ detected_modules' = ClassifyFrom(detected_modules, all_links[link_idx + 1], 1)
    /\ link_idx' = link_idx + 1
    /\ UNCHANGED <<mpc, nav_links, all_links, modules, notModules>>

\* modules = list(detected_modules.values()); return modules
ConvertToList ==
    /\ mpc = "classify"
    /\ link_idx = Len(all_links)
    /\ modules' = detected_modules
    /\ mpc' = "done"
    /\ UNCHANGED <<nav_links, all_links, link_idx, detected_modules, notModules>>

ModulesNext == CollectLinks \/ ClassifyLink \/ ConvertToList

\* texts of navigation links; one <a> can be reached through several selectors
NavTexts == {"Students", " Student Fee ", "Exam Results", "Class Test", "About us", "X"}

MaxNavLinks == 3

RECURSIVE NavLinkLists(_)
NavLinkLists(n) ==
    IF n = 0 THEN {<<>>}
    ELSE LET shorter == NavLinkLists(n - 1)
         IN shorter \cup {Append(l, NavLink(t, "/" \o lower(strip(t, " ")), "")) : l \in shorter, t \in NavTexts}

ModulesInit ==
    /\ mpc = "start"
    /\ nav_links \in NavLinkLists(MaxNavLinks)
    /\ all_links = <<>> /\ link_idx = 0 /\ detected_modules = <<>> /\ modules = <<>>

(***************************************************************************)
(* Test-case synthesis.  A test case keeps its test_id, its priority, the  *)
(* number of its steps (0: no steps key), its expected_result ("": no such *)
(* key) and its status ("": no such key).                                  *)
(***************************************************************************)
TestCase(test_id, priority, steps, expected_result) ==
    [test_id |-> test_id, priority |-> priority, steps |-> steps,
     expected_result |-> expected_result, status |-> ""]

RECURSIVE replace(_, _, _)
\* str.replace(old, new) for a one-character old
replace(s, old, new) ==
    IF Len(s) = 0 THEN ""
    ELSE (IF CharAt(s, 1) = old THEN new ELSE CharAt(s, 1)) \o replace(SubSeq(s, 2, Len(s)), old, new)

RECURSIVE Flatten(_)
Flatten(seqs) == IF seqs = <<>> THEN <<>> ELSE Head(seqs) \o Flatten(Tail(seqs))

\* [f(x) for x in seq if P(x)]
Comprehension(seq, P(_), f(_)) ==
    LET kept == SelectSeq(seq, P) IN [i \in 1..Len(kept) |-> f(kept[i])]

\* "a or b": the first value that is true
Or(a, b) == IF Truthy(a) THEN a ELSE b

\* "self.login_id and self.password"
CredentialsGiven == Truthy(login_id) /\ Truthy(password)

Dropdown(name, id) == [name |-> name, id |-> id]
Form(id) == [id |-> id, action |-> "", method |-> "get"]
Labelled(name, label) == [name |-> name, label |-> label]
Iframe(id, name, src) == [id |-> id, name |-> name, src |-> src]
Table(id, headers) == [id |-> id, headers |-> headers]

RECURSIVE Join(_)
\* " ".join([h.lower() for h in headers])
Join(headers) ==
    IF headers = <<>> THEN ""
    ELSE IF Len(headers) = 1 THEN lower(headers[1])
    ELSE lower(headers[1]) \o " " \o Join(Tail(headers))

\* (a changed _classify_erp_table: the fee keywords tried before the student keywords)
FeeFirstClassifier(headers) ==
    LET headers_text == Join(headers)
    IN IF AnyKeyword(<<"fee", "payment", "amount", "balance">>, headers_text) THEN "fee_record"
       ELSE IF AnyKeyword(<<"student", "name", "roll", "admission">>, headers_text) THEN "student_list"
       ELSE IF AnyKeyword(<<"attendance", "present", "absent">>, headers_text) THEN "attendance"
       ELSE IF AnyKeyword(<<"exam", "test", "marks", "grade">>, headers_text) THEN "examination"
       ELSE IF AnyKeyword(<<"teacher", "staff", "faculty">>, headers_text) THEN "teacher_list"
       ELSE IF AnyKeyword(<<"book", "library", "issue", "return">>, headers_text) THEN "library"
       ELSE IF AnyKeyword(<<"bus", "transport", "route">>, headers_text) THEN "transport"
       ELSE "generic"

_classify_erp_table(headers) ==
    LET headers_text == Join(headers)
    IN IF AnyKeyword(<<"student", "name", "roll", "admission">>, headers_text) THEN "student_list"
       ELSE IF AnyKeyword(<<"fee", "payment", "amount", "balance">>, headers_text) THEN "fee_record"
       ELSE IF AnyKeyword(<<"attendance", "present", "absent">>, headers_text) THEN "attendance"
       ELSE IF AnyKeyword(<<"exam", "test", "marks", "grade">>, headers_text) THEN "examination"
       ELSE IF AnyKeyword(<<"teacher", "staff", "faculty">>, headers_text) THEN "teacher_list"
       ELSE IF AnyKeyword(<<"book", "library", "issue", "return">>, headers_text) THEN "library"
       ELSE IF AnyKeyword(<<"bus", "transport", "route">>, headers_text) THEN "transport"
       ELSE "generic"

\* a record of analyze_erp_tables; pagination_exists is what the probe of the page found
TableDetail(table, pagination_exists) ==
    [id |-> table.id, headers |-> table.headers, type |-> _classify_erp_table(table.headers),
     pagination |-> [exists |-> pagination_exists]]

\* ---- generate_positive_test_cases
PositiveLoginTest(login_success) ==
    [TestCase("POS_LOGIN_001", "High", 5, "User should be logged in successfully")
        EXCEPT !.status = IF login_success THEN "PASS" ELSE "FAIL"]

PositiveTests(d, run_login, login_success) ==
    (IF run_login THEN <<PositiveLoginTest(login_success)>> ELSE <<>>)
    \o Comprehension(d.input_fields,
                     LAMBDA inp : inp.type \notin {"password", "hidden", "submit", "button"},
                     LAMBDA inp : TestCase("POS_INPUT_" \o replace(inp.name, " ", "_"), "Medium", 3,
                                           "Field should accept valid input"))
    \o Comprehension(d.dropdowns, LAMBDA dd : TRUE,
                     LAMBDA dd : TestCase("POS_DROPDOWN_" \o _sanitize_identifier(Or(dd.name, Or(dd.id, "dropdown"))),
                                          "Medium", 4, "Dropdown should update value with selected option"))

\* ---- generate_negative_test_cases
negative_scenarios ==
    <<TestCase("NEG_LOGIN_001", "High", 4, "Error message should be displayed"),
      TestCase("NEG_LOGIN_002", "High", 4, "Error message should be displayed"),
      TestCase("NEG_LOGIN_003", "High", 4, "Invalid credentials error should be displayed"),
      TestCase("NEG_LOGIN_004", "Critical", 4, "SQL injection should be blocked"),
      TestCase("NEG_LOGIN_005", "Critical", 4, "XSS attack should be prevented")>>

NegativeOfField(inp) ==
    (IF inp.required
     THEN <<TestCase("NEG_INPUT_" \o replace(inp.name, " ", "_") \o "_EMPTY", "Medium", 3,
                     "Validation error should be displayed")>>
     ELSE <<>>)
    \o (IF inp.type \in {"text", "number", "email"}
        THEN <<TestCase("NEG_INPUT_" \o replace(inp.name, " ", "_") \o "_BOUNDARY", "Medium", 3,
                        "Field should handle boundary values correctly")>>
        ELSE <<>>)

\* (a changed SecurityOfField: the XSS payload test left out)
SecurityOfFieldSqliOnly(inp) ==
    <<TestCase("NEG_SECURITY_" \o _sanitize_identifier(Or(inp.name, Or(inp.id, "field"))) \o "_SQLI", "Critical", 4,
               "Application should reject or sanitize the malicious payload")>>

SecurityOfField(inp) ==
    LET sanitized == _sanitize_identifier(Or(inp.name, Or(inp.id, "field")))
    IN <<TestCase("NEG_SECURITY_" \o sanitized \o "_SQLI", "Critical", 4,
                  "Application should reject or sanitize the malicious payload"),
         TestCase("NEG_SECURITY_" \o sanitized \o "_XSS", "Critical", 4,
                  "Application should reject or sanitize the malicious payload")>>

NegativeTests(d) ==
    negative_scenarios
    \o Flatten([i \in 1..Len(d.input_fields) |-> NegativeOfField(d.input_fields[i])])
    \o LET security_inputs == SelectSeq(d.input_fields,
                                  LAMBDA inp : inp.type \in {"text", "email", "search", "textarea", "url"})
           first == Prefix(security_inputs, 10)
       IN Flatten([i \in 1..Len(first) |-> SecurityOfField(first[i])])

\* ---- generate_ui_test_cases
\* (a changed UiInputTested: password fields left out as well)
UiInputTestedNoPassword(inp) == inp.type \notin {"hidden", "submit", "password"}

\* line 1223: if inp['type'] not in ['hidden', 'submit']
UiInputTested(inp) == inp.type \notin {"hidden", "submit"}

UiTests(d) ==
    Comprehension(d.buttons, LAMBDA btn : TRUE,
                  LAMBDA btn : TestCase("UI_BUTTON_" \o Prefix(replace(replace(btn.text, " ", "_"), "/", "_"), 30),
                                        "Medium", 4, "Button should be visible, clickable, and properly styled"))
    \o Comprehension(d.input_fields, UiInputTested,
                     LAMBDA inp : TestCase("UI_INPUT_" \o replace(inp.name, " ", "_"), "Medium", 5,
                                           "Field should be properly styled, visible, and aligned"))
    \o Comprehension(d.checkboxes, LAMBDA box : TRUE,
                     LAMBDA box : TestCase("UI_CHECKBOX_" \o _sanitize_identifier(Or(box.label, Or(box.name, "Checkbox"))),
                                           "Medium", 4, "Checkbox should be visible and reflect user interaction"))
    \o Comprehension(d.radio_buttons, LAMBDA radio : TRUE,
                     LAMBDA radio : TestCase("UI_RADIO_" \o _sanitize_identifier(Or(radio.label, Or(radio.name, "Radio option"))),
                                             "Medium", 3, "Radio option should be selectable and mutually exclusive"))
    \o Comprehension(d.iframes, LAMBDA frame : TRUE,
                     LAMBDA frame : TestCase("UI_IFRAME_" \o _sanitize_identifier(Or(frame.id, Or(frame.name, Or(frame.src, "iframe")))),
                                             "Low", 3, "Iframe content should be accessible and visible"))
    \o <<TestCase("UI_PAGE_001", "Low", 3, "Page title should be: " \o d.page_title),
         TestCase("UI_PAGE_002", "High", 4, "Page should be responsive and usable on all screen sizes")>>

\* ---- generate_functional_test_cases
\* decimal digits of a number below 100
Decimal(n) == IF n < 10 THEN CharAt(Digits, n + 1)
               ELSE CharAt(Digits, (n \div 10) + 1) \o CharAt(Digits, (n % 10) + 1)

\* f"{n:03d}" for a number below 100
Pad3(n) == IF n < 10 THEN "00" \o Decimal(n) ELSE "0" \o Decimal(n)

\* str() of an optional attribute inside an f-string
Str(v) == IF v = "" THEN "None" ELSE v

FunctionalBeforeDropdowns(d) ==
    Comprehension(Prefix(d.links, 15), LAMBDA link : TRUE,
                  LAMBDA link : TestCase("FUNC_NAV_" \o Prefix(replace(replace(link.text, " ", "_"), "/", "_"), 25),
                                         "Medium", 8,
                                         "Page should navigate successfully without errors and display correct content"))
    \o Comprehension(d.buttons, LAMBDA btn : lower(btn.text) \notin {"login", "submit"},
                     LAMBDA btn : TestCase("FUNC_BTN_" \o Prefix(replace(replace(btn.text, " ", "_"), "/", "_"), 25),
                                           "Medium", 8, "Button should perform expected action without errors"))
    \o Comprehension(d.forms, LAMBDA form : TRUE,
                     LAMBDA form : TestCase("FUNC_FORM_" \o Str(form.id), "High", 9,
                                            "Form should submit successfully with proper validation"))
    \o Comprehension(d.input_fields, LAMBDA inp : inp.type \notin {"hidden", "submit", "button", "password"},
                     LAMBDA inp : TestCase("FUNC_INPUT_" \o replace(inp.name, " ", "_"), "Medium", 7,
                                           "Input field should accept and process data correctly"))

\* dd.get('name', 'unknown').replace(...) raises AttributeError when the name is None
DropdownRaises(dd) == ~Truthy(dd.name)

\* the dropdowns the loop of line 1413 handles before it ends or raises
DropdownsHandled(d) ==
    LET bad == FirstIndex(d.dropdowns, DropdownRaises)
    IN IF bad = 0 THEN d.dropdowns ELSE Prefix(d.dropdowns, bad - 1)

FunctionalRaises(d) == FirstIndex(d.dropdowns, DropdownRaises) # 0

FunctionalDropdowns(d) ==
    Comprehension(DropdownsHandled(d), LAMBDA dd : TRUE,
                  LAMBDA dd : TestCase("FUNC_DROPDOWN_" \o replace(dd.name, " ", "_"), "Medium", 7,
                                       "Dropdown should allow selection and update value correctly"))

FunctionalAfterDropdowns(d) ==
    Comprehension(d.tables, LAMBDA table : TRUE,
                  LAMBDA table : TestCase("FUNC_TABLE_" \o _sanitize_identifier(Or(table.id, "data_table")),
                                          "Medium", 4, "Table should render rows and headers without layout issues"))
    \o Comprehension(d.iframes, LAMBDA frame : TRUE,
                     LAMBDA frame : TestCase("FUNC_IFRAME_" \o _sanitize_identifier(Or(frame.id, Or(frame.name, Or(frame.src, "iframe")))),
                                             "Low", 4, "Iframe should be accessible and load content."))
    \o <<TestCase("FUNC_PERF_001", "Medium", 5, "Page should load within acceptable time with all resources")>>

\* ---- generate_multi_step_workflows
WorkflowTests(d) ==
    (IF CredentialsGiven
     THEN <<TestCase("WORKFLOW_LOGIN_001", "Critical", 14, "Complete login workflow should work seamlessly")>>
     ELSE <<>>)
    \o [idx \in 1..Len(Prefix(d.forms, 3)) |->
            TestCase("WORKFLOW_FORM_" \o Pad3(idx), "High", 11,
                     "Form should submit successfully and display confirmation")]
    \o Comprehension(Prefix(d.modules, 3), LAMBDA module : Prefix(module.links, 3) # <<>>,
                     LAMBDA module : TestCase("WORKFLOW_MODULE_" \o _sanitize_identifier(lower(module.name)), "High", 8,
                                              "All navigation within " \o lower(module.name) \o " module should work correctly"))

\* ---- generate_edge_case_tests
\* (a changed EdgeFields: the limit of 10 forgotten)
EdgeFieldsAll(input_fields) == input_fields

\* input_fields[:10]
EdgeFields(input_fields) == Prefix(input_fields, 10)

EdgeOfField(inp) ==
    IF inp.type \in {"text", "number", "email"}
    THEN <<TestCase("EDGE_MAX_LENGTH_" \o _sanitize_identifier(inp.name), "Medium", 6,
                    "Field should handle maximum length input correctly")>>
         \o (IF inp.required
             THEN <<TestCase("EDGE_EMPTY_REQUIRED_" \o _sanitize_identifier(inp.name), "High", 6,
                             "Required field should show validation error when empty")>>
             ELSE <<>>)
         \o <<TestCase("EDGE_SPECIAL_CHARS_" \o _sanitize_identifier(inp.name), "Medium", 5,
                       "Field should handle special characters appropriately")>>
    ELSE <<>>

EdgeCaseTests(d) ==
    LET first == EdgeFields(d.input_fields)
    IN Flatten([i \in 1..Len(first) |-> EdgeOfField(first[i])])
       \o Comprehension(Prefix(d.table_details, 5), LAMBDA table : table.pagination.exists,
                        LAMBDA table : TestCase("EDGE_TABLE_PAGINATION_" \o Str(table.id), "Medium", 8,
                                                "Table pagination should handle edge cases correctly"))
       \o (IF d.buttons # <<>>
           THEN <<TestCase("EDGE_RAPID_CLICKS", "Medium", 6,
                           "System should prevent duplicate submissions from rapid clicks")>>
           ELSE <<>>)
       \o (IF CredentialsGiven
           THEN <<TestCase("EDGE_SESSION_TIMEOUT", "High", 6, "System should handle session timeout gracefully")>>
           ELSE <<>>)

\* ---- generate_module_specific_tests: the records have neither steps nor expected_result
ModuleLinkTests(module, prefix, priority) ==
    Comprehension(Prefix(module.links, 5), LAMBDA link : TRUE,
                  LAMBDA link : TestCase(prefix \o _sanitize_identifier(link.text), priority, 0, ""))

ModuleTableTests(d, table_type, test_id, priority) ==
    Comprehension(d.table_details, LAMBDA table : table.type = table_type,
                  LAMBDA table : TestCase(test_id, priority, 0, ""))

ModuleTests(d, module) ==
    LET module_name == lower(module.name)
    IN CASE module_name = "student" -> ModuleLinkTests(module, "FUNC_STUDENT_", "High")
         [] module_name = "attendance" ->
                ModuleLinkTests(module, "FUNC_ATTENDANCE_", "High")
                \o ModuleTableTests(d, "attendance", "FUNC_ATTENDANCE_TABLE_VIEW", "Medium")
         [] module_name = "examination" ->
                ModuleLinkTests(module, "FUNC_EXAM_", "High")
                \o ModuleTableTests(d, "examination", "FUNC_EXAM_TABLE_VIEW", "High")
         [] module_name = "finance" ->
                ModuleLinkTests(module, "FUNC_FINANCE_", "High")
                \o ModuleTableTests(d, "fee_record", "FUNC_FEE_TABLE_VIEW", "High")
         [] module_name = "teacher" -> ModuleLinkTests(module, "FUNC_TEACHER_", "Medium")
         [] OTHER -> <<>>

ModuleSpecificTests(d) == Flatten([i \in 1..Len(d.modules) |-> ModuleTests(d, d.modules[i])])

\* ---- _generate_multi_level_tests
\* (a changed MultiLevelOfForm: the ids keyed by the level number only)
MultiLevelOfFormNoIndex(level_data, form_idx) ==
    LET stem == "MULTI_LEVEL_" \o Decimal(level_data.level_number) \o "_FORM"
    IN <<TestCase(stem \o "_POSITIVE", "High", 9, ""), TestCase(stem \o "_NEGATIVE", "Medium", 7, ""),
         TestCase(stem \o "_UI", "Medium", 7, "")>>

MultiLevelOfForm(level_data, form_idx) ==
    LET stem == "MULTI_LEVEL_" \o Decimal(level_data.level_number) \o "_FORM_" \o Pad3(form_idx)
    IN <<TestCase(stem \o "_POSITIVE", "High", 9,
                  "Form in " \o level_data.level_name \o " should submit successfully with valid data"),
         TestCase(stem \o "_NEGATIVE", "Medium", 7,
                  "Form in " \o level_data.level_name \o " should show validation errors for invalid data"),
         TestCase(stem \o "_UI", "Medium", 7,
                  "All form elements in " \o level_data.level_name \o " should be visible and properly displayed")>>

MultiLevelTests(d) ==
    Flatten([l \in 1..Len(d.form_levels) |->
                Flatten([f \in 1..Len(d.form_levels[l].forms) |-> MultiLevelOfForm(d.form_levels[l], f)])])

\* ---- the generate_* calls of generate_all_tests, lines 1882-1897, on the suite
\* the engine holds: every category is appended to, multi_level is assigned
GenerateInto(suite, d, run_login, login_success) ==
    LET upto_ui == [suite EXCEPT
                       !.positive = @ \o PositiveTests(d, run_login, login_success),
                       !.negative = @ \o NegativeTests(d),
                       !.ui = @ \o UiTests(d)]
    IN IF FunctionalRaises(d)
       THEN [upto_ui EXCEPT !.functional = @ \o FunctionalBeforeDropdowns(d) \o FunctionalDropdowns(d)]
       ELSE [upto_ui EXCEPT
                !.functional = @ \o FunctionalBeforeDropdowns(d) \o FunctionalDropdowns(d)
                                 \o FunctionalAfterDropdowns(d) \o ModuleSpecificTests(d),
                !.workflow = @ \o WorkflowTests(d),
                !.edge_case = @ \o EdgeCaseTests(d),
                !.multi_level = IF d.form_levels # <<>> THEN MultiLevelTests(d) ELSE @]

(***************************************************************************)
(* generate_all_tests on one engine: analyze_website, then the generate_*  *)
(* calls.  perform_login, run by generate_positive_test_cases, is taken    *)
(* here by its effect: the page actions it issued and what it returned.    *)
(***************************************************************************)
LoginRun(actions, result) == [actions |-> actions, result |-> result]

\* the runs of perform_login(otp_value=self.otp_value, wait_for_otp=self.otp_value is None)
LoginRuns(d) ==
    LET found == find_login_fields(d)
        form == <<"fill_username", "fill_password", "click_login", "wait_networkidle">>
    IN IF found.username_field = 0 \/ found.password_field = 0
       THEN {LoginRun(<<>>, FALSE)}
       ELSE {LoginRun(<<"fill_username">>, FALSE), LoginRun(form, TRUE), LoginRun(form, FALSE)}
            \cup (IF otp_value = NoneValue
                  THEN {LoginRun(form \o <<"otp_press_enter">>, TRUE)}
                  ELSE IF Truthy(otp_value)
                       THEN {LoginRun(form \o <<"otp_fill", "otp_verify_click">>, FALSE)}
                       ELSE {})

\* (a changed GenerationPageActions: the login attempted whatever the credentials)
GenerationPageActionsAlways(run) == <<"goto " \o website_url>> \o run.actions

\* lines 998-1006: the page is touched only when both credentials are set
GenerationPageActions(run) ==
    IF CredentialsGiven THEN <<"goto " \o website_url>> \o run.actions ELSE <<>>

SynthIdle == gpc = "idle" /\ page_snapshot = EmptySnapshot /\ calls = 0 /\ returned = <<>>

MaxCalls == 2

\* generate_all_tests entered: initialize_driver when there is no page, then
\* analyze_website, which raises when the site cannot be reached
AnalyzeWebsite ==
    /\ gpc \in {"new", "returned", "raised"}
    /\ calls < MaxCalls
    /\ calls' = calls + 1
    /\ has_page' = TRUE
    /\ Issue("goto " \o website_url)
    /\ \E raises \in BOOLEAN :
          IF raises
          THEN gpc' = "raised" /\ UNCHANGED <<detected_elements, page_url>>
          ELSE gpc' = "analyzed" /\ detected_elements' = page_snapshot /\ page_url' = website_url
    /\ UNCHANGED <<website_url, login_id, password, otp_value, test_cases, page_snapshot, returned, notSynth>>

\* lines 1882-1897: the generate_* calls and the return of self.test_cases
GenerateTests ==
    /\ gpc = "analyzed"
    /\ \E run \in LoginRuns(detected_elements) :
          /\ page_actions' = page_actions \o GenerationPageActions(run)
          /\ test_cases' = GenerateInto(test_cases, detected_elements, CredentialsGiven, run.result)
    /\ IF FunctionalRaises(detected_elements)
       THEN gpc' = "raised" /\ UNCHANGED returned
       ELSE gpc' = "returned" /\ returned' = Append(returned, test_cases')
    /\ UNCHANGED <<website_url, login_id, password, otp_value, has_page, detected_elements,
                   page_url, page_snapshot, calls, notSynth>>

SynthNext == AnalyzeWebsite \/ GenerateTests

\* line 287 and lines 1890-1891: the levels _detect_form_levels returned are
\* stored in the snapshot, and multi_level is assigned the tests made from them
GenerateMultiLevel ==
    /\ dpc = "done"
    /\ dpc' = "generated"
    /\ detected_elements' = [detected_elements EXCEPT !.form_levels = form_levels]
    /\ test_cases' = [test_cases EXCEPT
                         !.multi_level = IF form_levels # <<>> THEN MultiLevelTests(detected_elements') ELSE @]
    /\ UNCHANGED <<page_links, level_links, level_idx, original_url, form_levels, back_result, failed_levels>>
    /\ UNCHANGED <<website_url, login_id, password, otp_value, has_page>>
    /\ UNCHANGED <<pageVars, sanVars, loginVars, moduleVars, synthVars, analyzeVars, classifyVars, lateVars>>

\* generate_positive_test_cases after its perform_login call has returned
\* (line 1006), and the rest of generate_all_tests behind it
GenerateAfterLogin ==
    /\ lpc = "done"
    /\ CredentialsGiven
    /\ arg_otp_value = otp_value /\ wait_for_otp = (otp_value = NoneValue)
    /\ test_cases' = GenerateInto(test_cases, detected_elements, TRUE, login_result = "True")
    /\ lpc' = IF FunctionalRaises(detected_elements) THEN "raised" ELSE "generated"
    /\ UNCHANGED <<last_read_raised, arg_otp_value, wait_for_otp, otp_field, waited, otp_reads, seen_filled, timed_out,
                   login_result, submit_url, page_source>>
    /\ UNCHANGED <<website_url, login_id, password, otp_value, has_page, detected_elements>>
    /\ UNCHANGED <<pageVars, sanVars, levelVars, moduleVars, synthVars, analyzeVars, classifyVars, lateVars>>

\* ---- the pages analysed
RECURSIVE Rep(_, _)
Rep(x, n) == IF n = 0 THEN <<>> ELSE <<x>> \o Rep(x, n - 1)

FieldKinds ==
    {Field("text", "roll no", "", "", TRUE), Field("text", "q", "q", "Search", FALSE),
     Field("password", "pwd", "", "", TRUE)}

MaxLead == 10
MaxRest == 1

\* a run of one kind of field followed by a run of another
FieldLists ==
    {Rep(a, i) \o Rep(b, j) : a \in FieldKinds, b \in FieldKinds, i \in 0..MaxLead, j \in 0..MaxRest}

PlainPage(fields) ==
    [EmptySnapshot EXCEPT !.input_fields = fields,
                          !.buttons = <<Button("Login", "btnLogin")>>,
                          !.links = <<Link("/about", "About us"), Link("/help", "Help")>>,
                          !.page_title = "Login"]

ErpTables == <<Table("feeTable", <<"Fee", "Amount">>), Table("", <<"Present", "Absent">>)>>

ErpPage(dropdowns) ==
    [EmptySnapshot EXCEPT
        !.input_fields = <<Field("text", "username", "", "", TRUE), Field("password", "pwd", "", "", TRUE),
                           Field("hidden", "token", "", "", FALSE)>>,
        !.buttons = <<Button("Sign In", ""), Button("Save/Apply", "save")>>,
        !.links = <<Link("/students", "Students"), Link("/fees", "Student Fee")>>,
        !.forms = <<Form(""), Form("loginForm")>>,
        !.dropdowns = dropdowns,
        !.checkboxes = <<Labelled("remember", "Remember me")>>,
        !.radio_buttons = <<Labelled("role", "")>>,
        !.iframes = <<Iframe("", "", "/frame.html")>>,
        !.tables = ErpTables,
        !.modules = ClassifyFrom(ClassifyFrom(ClassifyFrom(<<>>, NavLink("students", "/students", ""), 1),
                                              NavLink("student fee", "/fees", ""), 1),
                                 NavLink("class timetable", "/classes", ""), 1),
        !.table_details = <<TableDetail(ErpTables[1], TRUE), TableDetail(ErpTables[2], FALSE)>>,
        !.form_levels = <<LevelData(0, [text |-> "Step 2", full_url |-> "http://erp.test/step2"], 1)>>,
        !.page_title = "School ERP"]

\* the page of the spec's end-to-end scenario: a required text field email, a
\* password field, a button Login, two links
ScenarioPage ==
    PlainPage(<<Field("text", "email", "", "", TRUE), Field("password", "password", "", "", FALSE)>>)

PageSnapshots ==
    {PlainPage(fields) : fields \in FieldLists}
    \cup {ScenarioPage}
    \cup {ErpPage(<<Dropdown("class", "")>>), ErpPage(<<Dropdown("class name", "cls"), Dropdown("", "section")>>)}

Credentials ==
    {<<"", "", NoneValue>>, <<"admin", "secret", NoneValue>>, <<"admin", "secret", "482193">>}

SynthInit ==
    /\ gpc = "new" /\ calls = 0 /\ returned = <<>>
    /\ page_snapshot \in PageSnapshots
    /\ website_url = "http://erp.test/login"
    /\ \E c \in Credentials : login_id = c[1] /\ password = c[2] /\ otp_value = c[3]
    /\ has_page = FALSE
    /\ detected_elements = EmptySnapshot
    /\ test_cases = EmptyTestCases
    /\ PageIdle

(***************************************************************************)
(* analyze_website, section by section.  page_snapshot is what the page    *)
(* holds; the module, table and form-level passes, modelled step by step   *)
(* above, are taken here by their result.                                  *)
(***************************************************************************)
AnalyzeIdle == apc = "idle" /\ anchors = <<>> /\ snapshot = EmptySnapshot /\ analyze_error = ""

\* raise Exception(f"Cannot reach website ...") of line 93
CannotReach == "Cannot reach website"
\* an exception of the browser driver, passed on as it is
DriverError == "playwright error"

MaxLinks == 30

RECURSIVE ExtractLinks(_, _, _, _)
\* lines 201-212: the loop over the <a> elements from the i-th on; the read of
\* the element number bad raises and the element is skipped
ExtractLinks(links, i, seen_links, bad) ==
    IF i > Len(links) THEN <<>>
    ELSE LET href == links[i].href
             link_text == strip(links[i].text, " ")
         IN IF i # bad /\ href # "" /\ (link_text # "" \/ href \notin seen_links)
            THEN <<Link(href, IF link_text # "" THEN link_text ELSE href)>>
                 \o ExtractLinks(links, i + 1, seen_links \cup {href}, bad)
            ELSE ExtractLinks(links, i + 1, seen_links, bad)

\* a section whose locator call raised leaves the elements appended so far
SectionResults(elements) == {elements} \cup {Prefix(elements, 0)}

\* lines 70-93: the driver, the navigation, the waits for the page to settle
Navigate ==
    /\ apc = "start"
    /\ has_page' = TRUE
    /\ \E driver_raises \in BOOLEAN, goto_raises \in BOOLEAN, idle_timeout \in BOOLEAN, load_timeout \in BOOLEAN :
          IF ~has_page /\ driver_raises
          THEN apc' = "raised" /\ analyze_error' = DriverError /\ UNCHANGED pageVars
          ELSE IF goto_raises
          THEN /\ apc' = "raised" /\ analyze_error' = CannotReach
               /\ Issue("goto " \o website_url) /\ UNCHANGED page_url
          ELSE /\ apc' = "snapshot" /\ UNCHANGED analyze_error
               /\ page_url' = website_url
               /\ page_actions' = page_actions \o <<"goto " \o website_url, "wait_networkidle">>
                                     \o (IF idle_timeout THEN <<"wait_load">> ELSE <<>>)
                                     \o (IF idle_timeout /\ load_timeout THEN <<"sleep">> ELSE <<>>)
    /\ UNCHANGED <<anchors, snapshot, website_url, login_id, password, otp_value, detected_elements, test_cases>>
    /\ UNCHANGED <<sanVars, loginVars, levelVars, moduleVars, synthVars, classifyVars, lateVars>>

\* lines 95-109: the empty snapshot with the page title
NewSnapshot ==
    /\ apc = "snapshot"
    /\ \E title_raises \in BOOLEAN :
          IF title_raises
          THEN apc' = "raised" /\ analyze_error' = DriverError /\ UNCHANGED snapshot
          ELSE /\ apc' = "elements" /\ UNCHANGED analyze_error
               /\ snapshot' = [EmptySnapshot EXCEPT !.page_title = page_snapshot.page_title]
    /\ UNCHANGED <<anchors, engineVars, pageVars, sanVars, loginVars, levelVars, moduleVars, synthVars, classifyVars, lateVars>>

\* lines 111-195 and 216-275: inputs, buttons, forms, dropdowns, iframes, tables
ExtractElements ==
    /\ apc = "elements"
    /\ \E fields \in SectionResults(page_snapshot.input_fields),
          btns \in SectionResults(page_snapshot.buttons),
          rest_raises \in BOOLEAN :
          snapshot' = [snapshot EXCEPT
                          !.input_fields = fields,
                          !.buttons = btns,
                          !.checkboxes = IF fields = <<>> THEN <<>> ELSE page_snapshot.checkboxes,
                          !.radio_buttons = IF fields = <<>> THEN <<>> ELSE page_snapshot.radio_buttons,
                          !.forms = IF rest_raises THEN <<>> ELSE page_snapshot.forms,
                          !.dropdowns = IF rest_raises THEN <<>> ELSE page_snapshot.dropdowns,
                          !.iframes = IF rest_raises THEN <<>> ELSE page_snapshot.iframes,
                          !.tables = IF rest_raises THEN <<>> ELSE page_snapshot.tables]
    /\ apc' = "links"
    /\ UNCHANGED <<anchors, analyze_error, engineVars, pageVars, sanVars, loginVars, levelVars, moduleVars, synthVars, classifyVars, lateVars>>

\* lines 197-214
DetectLinks ==
    /\ apc = "links"
    /\ \E locator_raises \in BOOLEAN, bad \in 0..Len(anchors) :
          snapshot' = [snapshot EXCEPT
                          !.links = IF locator_raises THEN <<>>
                                    ELSE ExtractLinks(Prefix(anchors, MaxLinks), 1, {}, bad)]
    /\ apc' = "erp"
    /\ UNCHANGED <<anchors, analyze_error, engineVars, pageVars, sanVars, loginVars, levelVars, moduleVars, synthVars, classifyVars, lateVars>>

\* lines 277-290: modules, table details and form levels; each pass catches
\* its own exceptions and then returns what it has, here nothing
ClassifyAndFinish ==
    /\ apc = "erp"
    /\ \E modules_fail \in BOOLEAN, tables_fail \in BOOLEAN, levels_fail \in BOOLEAN :
          /\ snapshot' = [snapshot EXCEPT
                             !.modules = IF modules_fail THEN <<>> ELSE page_snapshot.modules,
                             !.table_details = IF tables_fail \/ snapshot.tables = <<>> THEN <<>>
                                               ELSE page_snapshot.table_details,
                             !.form_levels = IF levels_fail THEN <<>> ELSE page_snapshot.form_levels]
          /\ detected_elements' = snapshot'
    /\ apc' = "done"
    /\ UNCHANGED <<anchors, analyze_error, website_url, login_id, password, otp_value, has_page, test_cases>>
    /\ UNCHANGED <<pageVars, sanVars, loginVars, levelVars, moduleVars, synthVars, classifyVars, lateVars>>

AnalyzeNext == Navigate \/ NewSnapshot \/ ExtractElements \/ DetectLinks \/ ClassifyAndFinish

\* the <a> elements of the page: hrefs repeated with and without text
AnchorKinds ==
    {Link("/about", "About us"), Link("/about", " About "), Link("/about", ""),
     Link("/help", ""), Link("", "Top")}

MaxAnchorRun == 30
MaxAnchorRest == 2

AnchorLists ==
    {Rep(a, i) : a \in AnchorKinds, i \in 0..MaxAnchorRun}
    \cup {Rep(a, i) \o <<b>> \o Rep(c, j) : a \in {Link("/help", "")}, i \in {0, MaxAnchorRun},
                                          b \in AnchorKinds, c \in AnchorKinds, j \in 0..(MaxAnchorRest - 1)}

AnalyzeInit ==
    /\ apc = "start" /\ snapshot = EmptySnapshot /\ analyze_error = ""
    /\ anchors \in AnchorLists
    /\ page_snapshot \in {PlainPage(<<Field("text", "email", "", "", TRUE), Field("password", "pwd", "", "", FALSE)>>),
                          ErpPage(<<Dropdown("class", "")>>)}
    /\ gpc = "idle" /\ calls = 0 /\ returned = <<>>
    /\ website_url = "http://erp.test/login"
    /\ login_id = "" /\ password = "" /\ otp_value = NoneValue
    /\ has_page \in BOOLEAN
    /\ detected_elements = EmptySnapshot
    /\ test_cases = EmptyTestCases
    /\ PageIdle

(***************************************************************************)
(* _classify_erp_table on header rows                                      *)
(***************************************************************************)
ClassifyIdle == cpc = "idle" /\ headers_arg = <<>> /\ returned_type = ""

\* a call site: table_type = self._classify_erp_table(headers) (line 450)
ClassifyTable ==
    /\ cpc = "start"
    /\ returned_type' = _classify_erp_table(headers_arg)
    /\ cpc' = "done"
    /\ UNCHANGED <<headers_arg, sanVars, engineVars, pageVars, loginVars, levelVars, moduleVars,
                   synthVars, analyzeVars, lateVars>>

ClassifyNext == ClassifyTable

HeaderCells ==
    {"Roll No", "Name", "Admission No", "Fee", "Amount", "Balance", "Foo", "Bar",
     "Student Fee", "Present", "Exam Marks", "Staff", "Book Issue", "Bus Route", "Latest", "Date"}

MaxHeaders == 2

RECURSIVE HeaderRows(_)
HeaderRows(n) ==
    IF n = 0 THEN {<<>>}
    ELSE LET shorter == HeaderRows(n - 1)
         IN shorter \cup {Append(row, cell) : row \in shorter, cell \in HeaderCells}

ClassifyInit ==
    /\ cpc = "start" /\ returned_type = ""
    /\ headers_arg \in HeaderRows(MaxHeaders)
                          \cup {<<"Roll No", "Name", "Admission No">>, <<"Fee", "Amount", "Balance">>}

(***************************************************************************)
(* Sanitizer specification: inputs and call sites                          *)
(***************************************************************************)
MaxPad == 30
MaxTail == 3
TailAlphabet == {"a", "B", "7", "_", " ", "-"}

RECURSIVE Pad(_)
Pad(k) == IF k = 0 THEN "" ELSE "a" \o Pad(k - 1)

RECURSIVE Strings(_, _)
Strings(alphabet, n) ==
    IF n = 0 THEN {""}
    ELSE LET shorter == Strings(alphabet, n - 1)
         IN shorter \cup {s \o c : s \in shorter, c \in alphabet}

SanInputs == {Pad(k) \o t : k \in 0..MaxPad, t \in Strings(TailAlphabet, MaxTail)}

SanIdle == sanPc = "idle" /\ sanIn = "" /\ sanOut = "" /\ sanTwice = ""

SanInit == sanPc = "start" /\ sanIn \in SanInputs /\ sanOut = "" /\ sanTwice = ""

\* a call site: identifier := _sanitize_identifier(label)
Sanitize ==
    /\ sanPc = "start"
    /\ sanOut' = _sanitize_identifier(sanIn)
    /\ sanPc' = "once"
    /\ UNCHANGED <<sanIn, sanTwice, notSan>>

\* the identifier fed back as a label
SanitizeAgain ==
    /\ sanPc = "once"
    /\ sanTwice' = _sanitize_identifier(sanOut)
    /\ sanPc' = "twice"
    /\ UNCHANGED <<sanIn, sanOut, notSan>>

SanNext == Sanitize \/ SanitizeAgain

(***************************************************************************)
(* Run history (src/report_history.py): request threads call add_entry and *)
(* get_history on one history file, under the module lock.                 *)
(***************************************************************************)
HistoryLimit == 25

MaxWriters == 2
MaxAdds == 1

Writers == 1..MaxWriters

\* an entry written by an earlier run of the application
OldEntry(i) == [writer |-> 0, n |-> i, timestamp |-> 0]

\* the history file after L earlier runs, newest first
StoredHistory(L) == [i \in 1..L |-> OldEntry(L - i + 1)]

StoredLengths == {0, HistoryLimit - 1, HistoryLimit}

\* (a changed LockFree: the lock never taken into account)
LockFreeAlways(holder) == TRUE

\* "with _lock": the lock can be taken when no thread holds it
LockFree(holder) == holder = 0

HistoryIdle ==
    /\ h_lock = 0 /\ history_file = <<>> /\ added = <<>> /\ clock = 0
    /\ h_pc = <<>> /\ h_entry = <<>> /\ h_history = <<>> /\ adds = <<>> /\ h_view = <<>>

\* add_entry, lines 23-24: the entry gets its timestamp before the lock is taken
Stamp(w) ==
    /\ h_pc[w] = "idle"
    /\ adds[w] < MaxAdds
    /\ h_entry' = [h_entry EXCEPT ![w] = [writer |-> w, n |-> adds[w] + 1, timestamp |-> clock + 1]]
    /\ clock' = clock + 1
    /\ h_pc' = [h_pc EXCEPT ![w] = "wait_lock"]
    /\ UNCHANGED <<h_lock, history_file, added, h_history, adds, h_view>>
    /\ UNCHANGED <<earlyVars, managerVars, recorderVars, executorVars>>

\* add_entry, lines 25-26: the lock taken, the file read
AcquireRead(w) ==
    /\ h_pc[w] = "wait_lock"
    /\ LockFree(h_lock)
    /\ h_lock' = w
    /\ h_history' = [h_history EXCEPT ![w] = history_file]
    /\ h_pc' = [h_pc EXCEPT ![w] = "write"]
    /\ UNCHANGED <<history_file, added, clock, h_entry, adds, h_view>>
    /\ UNCHANGED <<earlyVars, managerVars, recorderVars, executorVars>>

\* add_entry, lines 27-30: insert(0, entry), history[:25], json.dump, lock released
WriteRelease(w) ==
    /\ h_pc[w] = "write"
    /\ history_file' = Prefix(<<h_entry[w]>> \o h_history[w], HistoryLimit)
    /\ added' = Append(added, h_entry[w])
    /\ h_lock' = 0
    /\ adds' = [adds EXCEPT ![w] = @ + 1]
    /\ h_pc' = [h_pc EXCEPT ![w] = "idle"]
    /\ UNCHANGED <<clock, h_entry, h_history, h_view>>
    /\ UNCHANGED <<earlyVars, managerVars, recorderVars, executorVars>>

\* get_history(limit), lines 33-37, called once by a reader thread
GetHistory ==
    /\ h_view = <<>>
    /\ history_file # <<>>
    /\ LockFree(h_lock)
    /\ \E limit \in {1, HistoryLimit} : h_view' = Prefix(history_file, limit)
    /\ UNCHANGED <<h_lock, history_file, added, clock, h_pc, h_entry, h_history, adds>>
    /\ UNCHANGED <<earlyVars, managerVars, recorderVars, executorVars>>

HistoryNext == (\E w \in Writers : Stamp(w) \/ AcquireRead(w) \/ WriteRelease(w)) \/ GetHistory

HistoryInit ==
    /\ h_lock = 0 /\ clock = 0 /\ h_view = <<>>
    /\ \E L \in StoredLengths :
          /\ history_file = StoredHistory(L)
          /\ added = [i \in 1..L |-> OldEntry(i)]
    /\ h_pc = [w \in Writers |-> "idle"]
    /\ h_entry = [w \in Writers |-> OldEntry(0)]
    /\ h_history = [w \in Writers |-> <<>>]
    /\ adds = [w \in Writers |-> 0]

(***************************************************************************)
(* RecordingManager (src/recording_manager.py): request threads call       *)
(* start_session, stop_session and get_status.  A session is known by its  *)
(* number; 0 stands for None.                                              *)
(***************************************************************************)
MaxCallers == 2
MaxSessions == 3

Callers == 1..MaxCallers

\* (a changed ManagerLockFree: the lock never taken into account)
ManagerLockFreeAlways(holder) == TRUE

\* "with self._lock" of the manager
ManagerLockFree(holder) == holder = 0

ManagerIdle ==
    /\ m_lock = 0 /\ _session = 0 /\ sessions_made = 0 /\ browsers = {} /\ pollers = {}
    /\ stop_events = {} /\ m_pc = <<>> /\ m_status = "none"

\* RecordingSession.stop, lines 35-41, of session s: the stop event is set;
\* join(timeout=5) returns with the poll thread ended or still running;
\* engine.close() closes the browser, or an exception inside it is swallowed
\* (smart_test_engine.py lines 2234-2242) and the browser stays open
StopOf(s) ==
    /\ stop_events' = stop_events \cup {s}
    /\ pollers' \in {pollers \ {s}, pollers}
    /\ browsers' \in {browsers \ {s}, browsers}

\* start_session, line 340: the manager lock taken
StartEnter(c) ==
    /\ m_pc[c] = "idle"
    /\ sessions_made < MaxSessions
    /\ ManagerLockFree(m_lock)
    /\ m_lock' = c
    /\ m_pc' = [m_pc EXCEPT ![c] = "stop_old"]
    /\ UNCHANGED <<_session, sessions_made, browsers, pollers, stop_events, m_status>>
    /\ UNCHANGED <<earlyVars, historyVars, recorderVars, executorVars>>

\* start_session, lines 341-342: "if self._session: self._session.stop()"
StartStopOld(c) ==
    /\ m_pc[c] = "stop_old"
    /\ IF _session # 0 THEN StopOf(_session) ELSE UNCHANGED <<stop_events, pollers, browsers>>
    /\ m_pc' = [m_pc EXCEPT ![c] = "start_new"]
    /\ UNCHANGED <<m_lock, _session, sessions_made, m_status>>
    /\ UNCHANGED <<earlyVars, historyVars, recorderVars, executorVars>>

\* start_session, lines 343-349: the new session assigned, then started
\* (lines 26-33): initialize_driver raises, or the browser is open and goto
\* raises, or the poll thread is started; the lock is released in each case
StartNew(c) ==
    /\ m_pc[c] = "start_new"
    /\ LET s == sessions_made + 1
       IN /\ _session' = s
          /\ sessions_made' = s
          /\ \E outcome \in {"driver_raises", "goto_raises", "started"} :
                /\ browsers' = IF outcome = "driver_raises" THEN browsers ELSE browsers \cup {s}
                /\ pollers' = IF outcome = "started" THEN pollers \cup {s} ELSE pollers
    /\ m_lock' = 0
    /\ m_pc' = [m_pc EXCEPT ![c] = "idle"]
    /\ UNCHANGED <<stop_events, m_status>>
    /\ UNCHANGED <<earlyVars, historyVars, recorderVars, executorVars>>

\* stop_session, lines 351-358, the whole body under the lock
StopSession(c) ==
    /\ m_pc[c] = "idle"
    /\ ManagerLockFree(m_lock)
    /\ IF _session # 0
       THEN StopOf(_session) /\ _session' = 0
       ELSE UNCHANGED <<stop_events, pollers, browsers, _session>>
    /\ UNCHANGED <<m_lock, sessions_made, m_pc, m_status>>
    /\ UNCHANGED <<earlyVars, historyVars, recorderVars, executorVars>>

\* get_status, lines 360-375, the whole body under the lock
GetStatus(c) ==
    /\ m_pc[c] = "idle"
    /\ ManagerLockFree(m_lock)
    /\ m_status' = IF _session # 0 THEN "active" ELSE "inactive"
    /\ UNCHANGED <<m_lock, _session, sessions_made, browsers, pollers, stop_events, m_pc>>
    /\ UNCHANGED <<earlyVars, historyVars, recorderVars, executorVars>>

\* _poll_events, lines 174-191, of session s ends: the stop event was seen,
\* or page.evaluate raised
PollExit(s) ==
    /\ s \in pollers
    /\ pollers' = pollers \ {s}
    /\ UNCHANGED <<m_lock, _session, sessions_made, browsers, stop_events, m_pc, m_status>>
    /\ UNCHANGED <<earlyVars, historyVars, recorderVars, executorVars>>

ManagerNext ==
    \/ \E c \in Callers : StartEnter(c) \/ StartStopOld(c) \/ StartNew(c) \/ StopSession(c) \/ GetStatus(c)
    \/ \E s \in 1..MaxSessions : PollExit(s)

ManagerInit ==
    /\ m_lock = 0 /\ _session = 0 /\ sessions_made = 0 /\ browsers = {} /\ pollers = {}
    /\ stop_events = {} /\ m_status = "none"
    /\ m_pc = [c \in Callers |-> "idle"]

(***************************************************************************)
(* RecordingSession._process_events: the events of one poll converted to   *)
(* steps.  processed keeps the events handled so far.                      *)
(***************************************************************************)
Event(type, selector, value, key) == [type |-> type, selector |-> selector, value |-> value, key |-> key]

NoAction == "<None>"

\* _convert_event_to_step, lines 210-228: the action of an event
ActionOf(event) ==
    CASE event.type = "click" -> "click"
      [] event.type \in {"input", "change"} -> "type"
      [] event.type = "submit" -> "submit"
      [] event.type = "keydown" /\ event.key = "Enter" -> "press_enter"
      [] event.type = "navigation" -> "navigate"
      [] event.type = "focus" -> "focus"
      [] OTHER -> NoAction

\* (a changed CounterAfterMerge: the merged event takes a step id)
CounterAfterMergeTaken(counter) == counter + 1

\* lines 231-236: a merged typing event returns before the counter is touched
CounterAfterMerge(counter) == counter

\* _convert_event_to_step on the session's steps and counter
ConvertEvent(s, event) ==
    LET action == ActionOf(event)
        last == Len(s.steps)
    IN IF action = NoAction THEN s
       ELSE IF /\ action = "type" /\ last > 0
               /\ s.steps[last].action = "type" /\ s.steps[last].selector = event.selector
            THEN [steps |-> [s.steps EXCEPT ![last].value = event.value],
                  counter |-> CounterAfterMerge(s.counter)]
            ELSE [steps |-> Append(s.steps,
                                   [step_id |-> "REC_STEP_" \o Pad3(s.counter + 1), action |-> action,
                                    selector |-> event.selector, value |-> event.value]),
                  counter |-> s.counter + 1]

RECURSIVE ConvertAll(_, _)
\* _process_events, lines 194-199: "for event in events"
ConvertAll(s, events) ==
    IF events = <<>> THEN s ELSE ConvertAll(ConvertEvent(s, Head(events)), Tail(events))

RecorderIdle == rec_steps = <<>> /\ _step_counter = 0 /\ processed = <<>>

EventKinds ==
    {Event("click", "#go", "", ""),
     Event("input", "#a", "x", ""),
     Event("change", "#a", "xy", ""),
     Event("input", "#b", "z", ""),
     Event("keydown", "#a", "x", "y"),
     Event("keydown", "#a", "xy", "Enter"),
     Event("blur", "#a", "xy", "")}

MaxEvents == 4

\* what one poll of window.__recordedEvents returns
Batches == {<<e>> : e \in EventKinds} \cup {<<e, f>> : e, f \in EventKinds}

\* _poll_events, lines 189-190: "if events: self._process_events(events)"
ProcessEvents ==
    /\ \E events \in Batches :
          /\ Len(processed) + Len(events) <= MaxEvents
          /\ LET after == ConvertAll([steps |-> rec_steps, counter |-> _step_counter], events)
             IN rec_steps' = after.steps /\ _step_counter' = after.counter
          /\ processed' = processed \o events
    /\ UNCHANGED <<earlyVars, historyVars, managerVars, executorVars>>

RecorderNext == ProcessEvents

RecorderInit == rec_steps = <<>> /\ _step_counter = 0 /\ processed = <<>>

(***************************************************************************)
(* TestExecutor.execute_all_tests (src/test_executor.py)                   *)
(***************************************************************************)
ExecutedCategories == <<"positive", "negative", "ui", "functional", "multi_level">>

Statuses == {"PASS", "FAIL", "SKIPPED"}

EmptyResults == [positive |-> <<>>, negative |-> <<>>, ui |-> <<>>, functional |-> <<>>, multi_level |-> <<>>]

ZeroSummary == [total_tests |-> 0, passed |-> 0, failed |-> 0, skipped |-> 0]

\* (a changed ResetSummary: the counters of the last call kept)
ResetSummaryKept(old) == old

\* execute_all_tests, lines 972-978
ResetSummary(old) == ZeroSummary

\* _update_summary, lines 1007-1019
_update_summary(s, result) ==
    LET status == IF result.status \notin {"PASS", "FAIL", "SKIPPED"} THEN upper(result.status) ELSE result.status
    IN IF status = "PASS" THEN [s EXCEPT !.passed = @ + 1]
       ELSE IF status = "FAIL" THEN [s EXCEPT !.failed = @ + 1]
       ELSE [s EXCEPT !.skipped = @ + 1]

MaxTests == 1
MaxExecCalls == 2

TestIdsOf(stem, n) == [i \in 1..n |-> stem \o Pad3(i)]

\* the test_cases argument: some categories filled, ui empty, workflow never executed
SuppliedSuites ==
    {[positive |-> TestIdsOf("POS_INPUT_", p), negative |-> TestIdsOf("NEG_LOGIN_", 1), ui |-> <<>>,
      functional |-> TestIdsOf("FUNC_NAV_", p), multi_level |-> TestIdsOf("MULTI_LEVEL_", m),
      workflow |-> TestIdsOf("WORKFLOW_FORM_", 1)] : p \in 0..MaxTests, m \in 0..1}

ExecutorIdle ==
    /\ e_pc = "idle" /\ supplied = <<>> /\ results = EmptyResults /\ summary = ZeroSummary /\ e_calls = 0

\* the category _execute_tests_sequential is in: the first with a test not yet run
Pending == {k \in 1..Len(ExecutedCategories) :
               Len(results[ExecutedCategories[k]]) < Len(supplied[ExecutedCategories[k]])}

\* execute_all_tests, lines 955-978: results and summary reset
ExecuteAllStart ==
    /\ e_pc \in {"idle", "returned"}
    /\ e_calls < MaxExecCalls
    /\ \E test_cases_arg \in SuppliedSuites : supplied' = test_cases_arg
    /\ results' = EmptyResults
    /\ summary' = ResetSummary(summary)
    /\ e_pc' = "running"
    /\ UNCHANGED e_calls
    /\ UNCHANGED <<earlyVars, historyVars, managerVars, recorderVars>>

\* one iteration of the loops of _execute_tests_sequential, lines 810-951:
\* execute_<category>_test returns a result, which is stored and counted
ExecuteTest ==
    /\ e_pc = "running"
    /\ Pending # {}
    /\ LET k == CHOOSE k \in Pending : \A j \in Pending : k <= j
           category == ExecutedCategories[k]
           test_id == supplied[category][Len(results[category]) + 1]
       IN \E status \in Statuses :
             LET result == [test_id |-> test_id, status |-> status]
             IN /\ results' = [results EXCEPT ![category] = Append(@, result)]
                /\ summary' = _update_summary(summary, result)
    /\ UNCHANGED <<e_pc, supplied, e_calls>>
    /\ UNCHANGED <<earlyVars, historyVars, managerVars, recorderVars>>

\* execute_all_tests, lines 988-1005
ExecuteAllReturn ==
    /\ e_pc = "running"
    /\ Pending = {}
    /\ summary' = [summary EXCEPT !.total_tests = summary.passed + summary.failed + summary.skipped]
    /\ e_pc' = "returned"
    /\ e_calls' = e_calls + 1
    /\ UNCHANGED <<supplied, results>>
    /\ UNCHANGED <<earlyVars, historyVars, managerVars, recorderVars>>

ExecutorNext == ExecuteAllStart \/ ExecuteTest \/ ExecuteAllReturn

ExecutorInit ==
    /\ e_pc = "idle" /\ supplied = <<>> /\ results = EmptyResults /\ summary = ZeroSummary /\ e_calls = 0

LateIdle == HistoryIdle /\ ManagerIdle /\ RecorderIdle /\ ExecutorIdle

(***************************************************************************)
(* Specifications                                                          *)
(***************************************************************************)
InitSanitize == SanInit /\ EngineIdle /\ PageIdle /\ LoginIdle /\ LevelsIdle /\ ModulesIdle /\ SynthIdle /\ AnalyzeIdle /\ ClassifyIdle /\ LateIdle
SpecSanitize == InitSanitize /\ [][SanNext]_vars

InitLogin == LoginInit /\ SanIdle /\ LevelsIdle /\ ModulesIdle /\ SynthIdle /\ AnalyzeIdle /\ ClassifyIdle /\ LateIdle
SpecLogin == InitLogin /\ [][LoginNext \/ GenerateAfterLogin]_vars

InitLevels == LevelsInit /\ SanIdle /\ LoginIdle /\ ModulesIdle /\ SynthIdle /\ AnalyzeIdle /\ ClassifyIdle /\ LateIdle
SpecLevels == InitLevels /\ [][LevelsNext \/ GenerateMultiLevel]_vars

InitModules == ModulesInit /\ SanIdle /\ LoginIdle /\ LevelsIdle /\ EngineIdle /\ PageIdle /\ SynthIdle /\ AnalyzeIdle /\ ClassifyIdle /\ LateIdle
SpecModules == InitModules /\ [][ModulesNext]_vars

InitSynth == SynthInit /\ SanIdle /\ LoginIdle /\ LevelsIdle /\ ModulesIdle /\ AnalyzeIdle /\ ClassifyIdle /\ LateIdle
SpecSynth == InitSynth /\ [][SynthNext]_vars

InitAnalyze == AnalyzeInit /\ SanIdle /\ LoginIdle /\ LevelsIdle /\ ModulesIdle /\ ClassifyIdle /\ LateIdle
SpecAnalyze == InitAnalyze /\ [][AnalyzeNext]_vars

InitClassify ==
    ClassifyInit /\ SanIdle /\ EngineIdle /\ PageIdle /\ LoginIdle /\ LevelsIdle /\ ModulesIdle /\ SynthIdle /\ AnalyzeIdle
    /\ LateIdle
SpecClassify == InitClassify /\ [][ClassifyNext]_vars

EarlyIdle ==
    /\ SanIdle /\ EngineIdle /\ PageIdle /\ LoginIdle /\ LevelsIdle /\ ModulesIdle /\ SynthIdle
    /\ AnalyzeIdle /\ ClassifyIdle

InitHistory == HistoryInit /\ EarlyIdle /\ ManagerIdle /\ RecorderIdle /\ ExecutorIdle
SpecHistory == InitHistory /\ [][HistoryNext]_vars

InitManager == ManagerInit /\ EarlyIdle /\ HistoryIdle /\ RecorderIdle /\ ExecutorIdle
SpecManager == InitManager /\ [][ManagerNext]_vars

InitRecorder == RecorderInit /\ EarlyIdle /\ HistoryIdle /\ ManagerIdle /\ ExecutorIdle
SpecRecorder == InitRecorder /\ [][RecorderNext]_vars

InitExecutor == ExecutorInit /\ EarlyIdle /\ HistoryIdle /\ ManagerIdle /\ RecorderIdle
SpecExecutor == InitExecutor /\ [][ExecutorNext]_vars

(***************************************************************************)
(* Claims                                                                  *)
(***************************************************************************)
ManualMode == lpc = "done" /\ otp_field.found /\ wait_for_otp /\ ~Truthy(arg_otp_value)

OtpSubmits == Cardinality({i \in 1..Len(page_actions) : page_actions[i] \in {"otp_verify_click", "otp_press_enter"}})

(***************************************************************************)
(* C1, as claimed: in manual-wait mode, when no poll of the 60 finds >= 4  *)
(* non-whitespace characters in the OTP field, perform_login returns False *)
(* and the OTP submit action is never invoked.                             *)
(***************************************************************************)
C1_TimeoutFailsWithoutSubmit ==
    (ManualMode /\ timed_out /\ otp_reads = 60 /\ ~seen_filled) =>
        (login_result = "False" /\ OtpSubmits = 0)

PreTraversalUrl == website_url

(***************************************************************************)
(* C3, as claimed: when _detect_form_levels returns, the page URL equals   *)
(* the URL before the traversal, whatever the level navigations and the    *)
(* navigate-back step did.                                                 *)
(***************************************************************************)
C3_AlwaysRestored == dpc = "done" => page_url = PreTraversalUrl

(***************************************************************************)
(* C3, amended: when level links were found, the last page action of the   *)
(* traversal is a goto to the pre-traversal URL, whatever the level        *)
(* navigations did; the page URL at return equals the pre-traversal URL    *)
(* unless that goto itself raised.                                         *)
(***************************************************************************)
C3_RestoredUnlessBackFails ==
    dpc = "done" =>
        /\ level_links = <<>> => (page_actions = <<>> /\ page_url = PreTraversalUrl)
        /\ level_links # <<>> =>
              /\ back_result # "none"
              /\ page_actions[Len(page_actions)] = "goto " \o PreTraversalUrl
        /\ back_result # "raised" => page_url = PreTraversalUrl

C3_Witness ==
    /\ dpc = "done" /\ back_result = "ok" /\ page_url = PreTraversalUrl
    /\ level_idx = 5 /\ Len(form_levels) = 3

(***************************************************************************)
(* C4: the traversal issues at most 5 level navigations (and one restoring *)
(* goto) and returns at most 5 FormLevel records, however many level links *)
(* matched.                                                                *)
(***************************************************************************)
C4_AtMostFiveLevels ==
    /\ Len(form_levels) <= 5
    /\ level_idx <= 5
    /\ Len(page_actions) <= (IF dpc \in {"done", "generated"} THEN 6 ELSE 5)

C4_Witness == dpc = "done" /\ Len(level_links) > 5 /\ Len(form_levels) = 5 /\ Len(page_actions) = 6

\* the module types whose keywords the text of a link contains
MatchingTypes(text) ==
    {erp_module_keywords[k].type : k \in {j \in 1..Len(erp_module_keywords) :
                                              AnyKeyword(erp_module_keywords[j].keywords, text)}}

FirstMatchingType(text) ==
    erp_module_keywords[CHOOSE k \in 1..Len(erp_module_keywords) :
        /\ AnyKeyword(erp_module_keywords[k].keywords, text)
        /\ \A j \in 1..(k - 1) : ~AnyKeyword(erp_module_keywords[j].keywords, text)].type

ModulesHolding(link) ==
    {i \in 1..Len(modules) : \E j \in 1..Len(modules[i].links) : modules[i].links[j] = link}

(***************************************************************************)
(* C9, as claimed: every navigation link is in the links of at most one    *)
(* module, and that module is the first category of the keyword table      *)
(* whose keywords its text contains.                                       *)
(***************************************************************************)
C9_AtMostOneModule ==
    mpc = "done" =>
        \A i \in 1..Len(all_links) :
            /\ Cardinality(ModulesHolding(all_links[i])) <= 1
            /\ \A m \in ModulesHolding(all_links[i]) :
                  modules[m].key = FirstMatchingType(all_links[i].text)

(***************************************************************************)
(* C7, as claimed: sanitize(sanitize(x)) = sanitize(x) for every input.    *)
(***************************************************************************)
C7_Idempotent == sanPc = "twice" => sanTwice = sanOut

IdChars == UpperLetters \o Digits \o "_"

WellFormedId(s) ==
    /\ Len(s) >= 1
    /\ Len(s) <= 30
    /\ \A i \in 1..Len(s) : CharIn(CharAt(s, i), IdChars)
    /\ \A i \in 1..(Len(s) - 1) : ~(CharAt(s, i) = "_" /\ CharAt(s, i + 1) = "_")
    /\ CharAt(s, 1) # "_"
    /\ CharAt(s, Len(s)) # "_"

HasAlnum(s) == \E i \in 1..Len(s) : IsAlnum(CharAt(s, i))

(***************************************************************************)
(* C8, as claimed: the output is a non-empty identifier of at most 30      *)
(* characters among A-Z, 0-9 and single underscores, with no leading or    *)
(* trailing underscore, and it is the placeholder when the input is empty  *)
(* or collapses to nothing.                                                *)
(***************************************************************************)
C8_TotalBounded ==
    sanPc # "start" =>
        /\ WellFormedId(sanOut)
        /\ (~HasAlnum(sanIn) => sanOut = "UNKNOWN")


\* ---- synthesis (SpecSynth)
\* C5: two calls of generate_all_tests on one engine, with the same page
\* snapshot and the same credentials, return the same suite.
C5_SecondCallSameSuite ==
    Len(returned) >= 2 => returned[2] = returned[1]

\* the suite with the status of the live login test blanked
WithoutLoginStatus(suite) ==
    [suite EXCEPT !.positive =
        [i \in 1..Len(suite.positive) |->
            IF suite.positive[i].test_id = "POS_LOGIN_001"
            THEN [suite.positive[i] EXCEPT !.status = ""]
            ELSE suite.positive[i]]]

BothCredentials == Truthy(login_id) /\ Truthy(password)

IsEmptyRequired(tc) == Len(tc.test_id) >= 20 /\ SubSeq(tc.test_id, 1, 20) = "EDGE_EMPTY_REQUIRED_"

EmptyRequiredCount(category) == Len(SelectSeq(category, IsEmptyRequired))

RequiredCount(fields) == Len(SelectSeq(fields, LAMBDA inp : inp.required))

Min(a, b) == IF a <= b THEN a ELSE b

FirstSuite == gpc = "returned" /\ calls = 1

OutcomeRead == lpc = "done" /\ page_source # NotRead

\* C11: the login reports success when the URL after the submit differs from
\* the URL the page had before the credentials were submitted or the body
\* holds dashboard/welcome/home; otherwise failure when the body holds
\* error/invalid/incorrect/failed; otherwise success.
C11_OutcomeByUrlChange ==
    OutcomeRead =>
        login_result = IF page_url # submit_url \/ AnyKeyword(success_indicators, page_source) THEN "True"
                       ELSE IF AnyKeyword(error_indicators, page_source) THEN "False"
                       ELSE "True"


\* what find_login_fields looks for, said of the snapshot
NoPasswordInput(d) == \A i \in 1..Len(d.input_fields) : d.input_fields[i].type # "password"

NoUsernameInput(d) ==
    \A i \in 1..Len(d.input_fields) :
        LET inp == d.input_fields[i]
        IN inp.type \in {"text", "email"} =>
              \A k \in 1..Len(login_keywords) :
                  /\ ~Contains(lower(inp.name), login_keywords[k])
                  /\ ~Contains(lower(inp.id), login_keywords[k])
                  /\ ~Contains(lower(inp.placeholder), login_keywords[k])

SnapshotsMissingField == {d \in LoginSnapshots : NoUsernameInput(d) \/ NoPasswordInput(d)}

LoginFieldMissing == detected_elements \in SnapshotsMissingField

HasTest(category, test_id) == \E i \in 1..Len(category) : category[i].test_id = test_id

\* C12: without a username field or without a password field perform_login
\* returns False and issues no fill and no click, and generate_all_tests goes
\* on to return the whole suite.
C12_MissingFieldFailsQuietly ==
    LoginFieldMissing =>
        /\ page_actions = <<>>
        /\ lpc \in {"start", "done", "generated"}
        /\ lpc # "start" => login_result = "False"
        /\ lpc = "generated" =>
              /\ \E i \in 1..Len(test_cases.positive) :
                    test_cases.positive[i].test_id = "POS_LOGIN_001" /\ test_cases.positive[i].status = "FAIL"
              /\ HasTest(test_cases.negative, "NEG_LOGIN_005")
              /\ HasTest(test_cases.ui, "UI_PAGE_002")
              /\ HasTest(test_cases.functional, "FUNC_PERF_001")
              /\ HasTest(test_cases.workflow, "WORKFLOW_LOGIN_001")
              /\ HasTest(test_cases.edge_case, "EDGE_SESSION_TIMEOUT")

C12_Witness ==
    /\ lpc = "generated"
    /\ NoPasswordInput(detected_elements)
    /\ login_result = "False"
    /\ HasTest(test_cases.functional, "FUNC_PERF_001")


\* ---- analysis (SpecAnalyze)
\* C13: analyze_website raises only when the initial navigation to the target
\* URL fails; load-state timeouts and failures of extraction, classification
\* or level discovery never make it raise.
C13_RaisesOnlyOnNavigation ==
    apc = "raised" => analyze_error = CannotReach

\* C15: after the analysis no two link records of the snapshot have the same
\* href, and the snapshot holds at most 30 links.
C15_LinksUniqueByHref ==
    apc = "done" =>
        /\ Len(detected_elements.links) <= 30
        /\ \A i, j \in 1..Len(detected_elements.links) :
              i # j => detected_elements.links[i].href # detected_elements.links[j].href


\* ---- table classification (SpecClassify)
\* the table types in their priority order, with their keywords
TablePriority ==
    <<[type |-> "student_list", keywords |-> {"student", "name", "roll", "admission"}],
      [type |-> "fee_record", keywords |-> {"fee", "payment", "amount", "balance"}],
      [type |-> "attendance", keywords |-> {"attendance", "present", "absent"}],
      [type |-> "examination", keywords |-> {"exam", "test", "marks", "grade"}],
      [type |-> "teacher_list", keywords |-> {"teacher", "staff", "faculty"}],
      [type |-> "library", keywords |-> {"book", "library", "issue", "return"}],
      [type |-> "transport", keywords |-> {"bus", "transport", "route"}]>>

TypesMatching(text) ==
    {k \in 1..Len(TablePriority) : \E kw \in TablePriority[k].keywords : Contains(text, kw)}

\* C14: the table type is that of the first entry of the priority order with a
\* keyword in the lower-cased joined header text, generic when there is none;
\* the three header rows of the spec give student_list, fee_record, generic.
C14_FirstMatchingType ==
    cpc = "done" =>
        LET matching == TypesMatching(Join(headers_arg))
        IN /\ matching = {} => returned_type = "generic"
           /\ matching # {} =>
                 returned_type = TablePriority[CHOOSE k \in matching : \A other \in matching : k <= other].type
           /\ headers_arg = <<"Roll No", "Name", "Admission No">> => returned_type = "student_list"
           /\ headers_arg = <<"Fee", "Amount", "Balance">> => returned_type = "fee_record"
           /\ headers_arg = <<"Foo", "Bar">> => returned_type = "generic"

C14_Witness ==
    /\ cpc = "done"
    /\ headers_arg = <<"Student Fee", "Amount">>
    /\ returned_type = "student_list"


\* ---- the generated suite (SpecSynth)
Categories == {"positive", "negative", "ui", "functional", "workflow", "edge_case", "multi_level"}

Priorities == {"Critical", "High", "Medium", "Low"}

\* C16: every test case of every category of the returned suite has a steps
\* list, an expected result and a priority among Critical, High, Medium, Low.
C16_EveryTestCaseComplete ==
    gpc = "returned" =>
        \A c \in Categories : \A i \in 1..Len(test_cases[c]) :
            /\ test_cases[c][i].steps > 0
            /\ test_cases[c][i].expected_result # ""
            /\ test_cases[c][i].priority \in Priorities


AllTests(suite) ==
    suite.positive \o suite.negative \o suite.ui \o suite.functional
        \o suite.workflow \o suite.edge_case \o suite.multi_level

\* the suite holds a test whose id is prefix + sanitize(label)
HasSanitizedId(suite, prefix, label) == HasTest(AllTests(suite), prefix \o _sanitize_identifier(label))

\* C17: a test id built from an element label is its fixed prefix followed by
\* the sanitizer's output for the label (field name, button text, link text,
\* dropdown name, module name, table id).
C17_IdIsPrefixPlusSanitizedLabel ==
    (gpc = "returned" /\ calls = 1) =>
        LET d == detected_elements
        IN /\ \A i \in 1..Len(d.input_fields) :
                 d.input_fields[i].type \in {"text", "email", "number"} =>
                     /\ HasSanitizedId(test_cases, "POS_INPUT_", d.input_fields[i].name)
                     /\ HasSanitizedId(test_cases, "UI_INPUT_", d.input_fields[i].name)
                     /\ HasSanitizedId(test_cases, "FUNC_INPUT_", d.input_fields[i].name)
           /\ \A i \in 1..Len(d.buttons) : HasSanitizedId(test_cases, "UI_BUTTON_", d.buttons[i].text)
           /\ \A i \in 1..Len(d.links) : HasSanitizedId(test_cases, "FUNC_NAV_", d.links[i].text)
           /\ \A i \in 1..Len(d.dropdowns) : HasSanitizedId(test_cases, "POS_DROPDOWN_", d.dropdowns[i].name)
           /\ \A i \in 1..Len(d.modules) : HasSanitizedId(test_cases, "WORKFLOW_MODULE_", d.modules[i].name)
           /\ \A i \in 1..Len(d.tables) :
                 d.tables[i].id # "" => HasSanitizedId(test_cases, "FUNC_TABLE_", d.tables[i].id)


TestIds(category) == [i \in 1..Len(category) |-> category[i].test_id]

\* the first suite returned for the scenario page, credentials given
ScenarioSuite == gpc = "returned" /\ calls = 1 /\ page_snapshot = ScenarioPage /\ BothCredentials

FixedLoginScenarios == <<"NEG_LOGIN_001", "NEG_LOGIN_002", "NEG_LOGIN_003", "NEG_LOGIN_004", "NEG_LOGIN_005">>

\* C18 (as stated): for the scenario page the negative category is the 5 fixed
\* login scenarios, one empty-field test and one boundary test for email, and
\* nothing else.
C18_NegativeSevenTests ==
    ScenarioSuite =>
        TestIds(test_cases.negative)
            = FixedLoginScenarios \o <<"NEG_INPUT_email_EMPTY", "NEG_INPUT_email_BOUNDARY">>

\* C18 (amended): for the scenario page the negative category is the 5 fixed
\* login scenarios, the empty-field test and the boundary test for email, and
\* the two payload tests (SQLI, XSS) for email: 9 tests.
C18_NegativeWithPayloadTests ==
    ScenarioSuite =>
        TestIds(test_cases.negative)
            = FixedLoginScenarios \o <<"NEG_INPUT_email_EMPTY", "NEG_INPUT_email_BOUNDARY",
                                       "NEG_SECURITY_EMAIL_SQLI", "NEG_SECURITY_EMAIL_XSS">>

C18_Witness == ScenarioSuite /\ Len(test_cases.negative) = 9

\* C19 (as stated): for the scenario page the ui category holds exactly 4
\* tests: 1 button test, 1 input test, the 2 fixed page tests.
C19_UiFourTests ==
    (gpc = "returned" /\ calls = 1 /\ page_snapshot = ScenarioPage) =>
        TestIds(test_cases.ui) = <<"UI_BUTTON_Login", "UI_INPUT_email", "UI_PAGE_001", "UI_PAGE_002">>

\* C19 (amended): for the scenario page the ui category holds exactly 5
\* tests: 1 button test, an input test for email and one for the password
\* field, the 2 fixed page tests.
C19_UiFiveTests ==
    (gpc = "returned" /\ calls = 1 /\ page_snapshot = ScenarioPage) =>
        TestIds(test_cases.ui)
            = <<"UI_BUTTON_Login", "UI_INPUT_email", "UI_INPUT_password", "UI_PAGE_001", "UI_PAGE_002">>

C19_Witness ==
    /\ gpc = "returned" /\ calls = 1 /\ page_snapshot = ScenarioPage
    /\ Len(test_cases.ui) = 5
    /\ ~BothCredentials


\* the table type that goes with a module category, "" when there is none
MatchingTableType(module_key) ==
    CASE module_key = "student" -> "student_list"
      [] module_key = "teacher" -> "teacher_list"
      [] module_key = "attendance" -> "attendance"
      [] module_key = "examination" -> "examination"
      [] module_key = "finance" -> "fee_record"
      [] module_key = "library" -> "library"
      [] module_key = "transport" -> "transport"
      [] OTHER -> ""

\* what the module augmentation is said to append for one module
AugmentationCount(d, module) ==
    Min(Len(module.links), 5)
    + (IF \E i \in 1..Len(d.table_details) : d.table_details[i].type = MatchingTableType(module.key)
       THEN 1 ELSE 0)

RECURSIVE SumOver(_, _)
SumOver(d, mods) == IF mods = <<>> THEN 0 ELSE AugmentationCount(d, Head(mods)) + SumOver(d, Tail(mods))

\* the tests appended to functional behind the fixed performance test
AugmentationTests(functional) ==
    LET perf == CHOOSE i \in 1..Len(functional) : functional[i].test_id = "FUNC_PERF_001"
    IN SubSeq(functional, perf + 1, Len(functional))

\* C20: for each module of the snapshot, whatever its category, the functional
\* category gains one navigation test per module link up to 5 and, when a
\* table of the matching type exists, exactly one table-display test.
C20_AugmentationPerModule ==
    (gpc = "returned" /\ calls = 1) =>
        Len(AugmentationTests(test_cases.functional)) = SumOver(detected_elements, detected_elements.modules)


\* the branch line 903-944 takes once detect_otp_field has returned f
OtpBranchClaimed(f, value, wait) ==
    IF ~f.found THEN {"outcome"}
    ELSE IF Truthy(value) THEN {"auto_fill"}
    ELSE IF wait THEN {"manual_wait", "outcome"}
    ELSE {"outcome"}

\* C21: when an OTP field is detected and an OTP value was supplied the AUTO
\* path is taken, for either value of wait_for_otp; the MANUAL path is taken
\* only when no value was supplied and a wait was requested; without an OTP
\* field neither path runs.
C21_OtpModeSelection ==
    [][lpc = "detect_otp" => lpc' \in OtpBranchClaimed(otp_field', arg_otp_value, wait_for_otp)]_vars

\* the gotos of a whole traversal: the first five level links, then the way back
TraversalGotos ==
    [i \in 1..Len(Prefix(level_links, 5)) |-> "goto " \o level_links[i].full_url] \o <<"goto " \o original_url>>

\* C22: a failed navigation to one level does not stop the traversal: every
\* level among the first 5 is still navigated to, in order, the failed level
\* gives no FormLevel record, and the navigate-back goto is still issued.
C22_FailedLevelSkipped ==
    /\ \A i \in failed_levels : \A k \in 1..Len(form_levels) : form_levels[k].level_number # i + 1
    /\ (dpc = "done" /\ level_links # <<>>) => page_actions = TraversalGotos

C22_Witness ==
    /\ dpc = "done" /\ 0 \in failed_levels /\ back_result # "none"
    /\ \E k \in 1..Len(form_levels) : form_levels[k].level_number = 2
    /\ Len(page_actions) = 6

LoginOrder == <<"fill_username", "fill_password", "click_login", "wait_networkidle">>

OtpActions == {"otp_fill", "otp_verify_click", "otp_press_enter"}

\* C23: the page actions of perform_login are issued in the order fill
\* username, fill password, click submit, wait for network idle; OTP detection
\* and every OTP action (fill, poll, verify click) come after them.
C23_LoginBeforeOtp ==
    /\ \A i \in 1..Len(page_actions) :
          IF i <= 4 THEN page_actions[i] = LoginOrder[i] ELSE page_actions[i] \in OtpActions
    /\ (lpc \in {"detect_otp", "manual_wait", "poll", "verify", "auto_fill", "auto_verify"} \/ otp_reads > 0 \/ otp_field.found)
          => (Len(page_actions) >= 4 /\ SubSeq(page_actions, 1, 4) = LoginOrder)

C23_Witness ==
    /\ lpc = "done" /\ otp_reads > 0
    /\ page_actions = LoginOrder \o <<"otp_verify_click">>

\* C24: the manual wait reads the OTP field at most 60 times, once per
\* second waited; it stops at the first read holding >= 4 non-whitespace
\* characters; a read that raises is counted as a poll that found the field
\* unfilled: the loop goes on after it and ends after 60 reads at the latest.
C24_ManualWaitBounded ==
    /\ otp_reads <= max_wait /\ waited <= max_wait
    /\ lpc = "poll" => (otp_reads = waited /\ ~seen_filled)
    /\ timed_out => (otp_reads = max_wait /\ waited = max_wait /\ ~seen_filled)
    /\ (otp_reads > 0 /\ lpc # "poll" /\ ~timed_out) => (otp_reads = waited + 1 /\ ~last_read_raised)

C24_Witness == lpc = "done" /\ timed_out /\ last_read_raised /\ otp_reads = 60


ModuleRecordsSound(mods) ==
    /\ \A i \in 1..Len(mods) : mods[i].count = Len(mods[i].links)
    /\ \A i, j \in 1..Len(mods) : mods[i].key = mods[j].key => i = j

\* C29: in every module record of detect_erp_modules, count is the number of
\* entries of links, and each module category appears at most once in the
\* returned list.
C29_CountIsLinksAndCategoryOnce == ModuleRecordsSound(detected_modules) /\ ModuleRecordsSound(modules)

C29_Witness ==
    /\ mpc = "done" /\ Len(modules) >= 2
    /\ \E i \in 1..Len(modules) : modules[i].count >= 2


RECURSIVE FormCount(_)
FormCount(levels) == IF levels = <<>> THEN 0 ELSE Len(Head(levels).forms) + FormCount(Tail(levels))

\* C30: the FormLevel records carry level numbers in 1..5, increasing, each
\* the position of its link among the level links (a skipped level leaves a
\* gap); the multi_level category holds three tests per form of a level, none
\* for a level without forms, and its test ids are pairwise distinct.
C30_MultiLevelIdsDistinct ==
    /\ \A k \in 1..Len(form_levels) :
          /\ form_levels[k].level_number \in 1..5
          /\ form_levels[k].url = level_links[form_levels[k].level_number].full_url
          /\ k > 1 => form_levels[k - 1].level_number < form_levels[k].level_number
    /\ dpc = "generated" =>
          LET ids == TestIds(test_cases.multi_level)
          IN /\ Len(ids) = 3 * FormCount(form_levels)
             /\ \A i, j \in 1..Len(ids) : ids[i] = ids[j] => i = j

C30_Witness ==
    /\ dpc = "generated" /\ failed_levels # {}
    /\ \E k \in 1..Len(form_levels) : form_levels[k].forms = <<>>
    /\ \E k \in 1..Len(form_levels) : Len(form_levels[k].forms) = 2 /\ form_levels[k].level_number > k
    /\ Len(test_cases.multi_level) >= 9


LiveSessions == browsers \cup pollers

\* C25 (as stated): two recording sessions are never live together: when a
\* session is replaced or stopped its poll thread is stopped and its browser
\* closed before the next one starts, under any interleaving of the calls.
C25_NeverTwoLive == Cardinality(LiveSessions) <= 1

\* C25 (amended): the manager lock admits one caller at a time and the
\* manager refers to at most one session; every other session created has
\* had its stop requested (stop event set, join and close attempted) before
\* the next one was created, so at most one session exists whose stop was
\* not requested.
C25_OneSessionNotStopped ==
    /\ Cardinality({c \in DOMAIN m_pc : m_pc[c] # "idle"}) <= 1
    /\ m_lock # 0 <=> \E c \in DOMAIN m_pc : m_pc[c] # "idle"
    /\ _session \in 0..sessions_made
    /\ LiveSessions \subseteq 1..sessions_made
    /\ \A s \in 1..sessions_made : s # _session => s \in stop_events
    /\ Cardinality({s \in 1..sessions_made : s \notin stop_events}) <= 1

C25_Witness ==
    /\ sessions_made = 2 /\ _session = 2 /\ m_lock = 0
    /\ stop_events = {1} /\ LiveSessions = {2} /\ 2 \in pollers
    /\ m_status = "active"

Reverse(seq) == [i \in 1..Len(seq) |-> seq[Len(seq) - i + 1]]

ResultCount == Len(results.positive) + Len(results.negative) + Len(results.ui)
               + Len(results.functional) + Len(results.multi_level)

\* C27: when execute_all_tests has returned, total_tests = passed + failed +
\* skipped = the number of result records, and each of the five executed
\* categories holds one result per test case supplied in it; a second call
\* starts from empty results and zero counters.
C27_SummaryCountsResults ==
    e_pc = "returned" =>
        /\ summary.total_tests = summary.passed + summary.failed + summary.skipped
        /\ summary.total_tests = ResultCount
        /\ \A k \in 1..Len(ExecutedCategories) :
              TestIds(results[ExecutedCategories[k]]) = supplied[ExecutedCategories[k]]

C27_Witness ==
    /\ e_pc = "returned" /\ e_calls = 2
    /\ summary.total_tests = 4 /\ summary.passed = 2 /\ summary.failed = 1 /\ summary.skipped = 1

IsTyping(event) == event.type \in {"input", "change"}

GivesStep(event) == ActionOf(event) # NoAction

\* the events that open a step: those with an action, without the typing
\* events that follow a typing event on the same selector
StepOpeners(events) ==
    LET acting == SelectSeq(events, GivesStep)
    IN {i \in 1..Len(acting) :
           ~(/\ IsTyping(acting[i]) /\ i > 1
             /\ IsTyping(acting[i - 1]) /\ acting[i - 1].selector = acting[i].selector)}

\* C28: the recorded steps have the ids REC_STEP_001, REC_STEP_002, ... in
\* the order of the events; a run of input/change events on one selector
\* gives one type step, whose value is that of the last event of the run,
\* and the merged events take no step id.
C28_StepIdsAndTypingRuns ==
    /\ _step_counter = Len(rec_steps)
    /\ \A i \in 1..Len(rec_steps) : rec_steps[i].step_id = "REC_STEP_" \o Pad3(i)
    /\ Len(rec_steps) = Cardinality(StepOpeners(processed))
    /\ (processed # <<>> /\ IsTyping(processed[Len(processed)])) =>
          LET last == rec_steps[Len(rec_steps)]
              event == processed[Len(processed)]
          IN last.action = "type" /\ last.selector = event.selector /\ last.value = event.value

C28_Witness ==
    /\ Len(processed) = 4 /\ Len(rec_steps) = 2
    /\ processed[1].type = "input" /\ processed[2].type = "keydown" /\ processed[3].type = "change"
    /\ rec_steps[1].action = "type" /\ rec_steps[1].value = "xy"
    /\ rec_steps[2].step_id = "REC_STEP_002" /\ rec_steps[2].action = "click"

============================================================================
